---- MODULE Spec2Model ----
(***************************************************************************)
(* A model of llng-mcp's multi-transport layer: the Transport Registry     *)
(* (src/src/transport/registry.ts), the Kubernetes transport's pod cache   *)
(* (src/src/transport/k8s.ts), the shell transport and the child processes *)
(* both spawn (src/src/transport/ssh.ts), and the REST API transport       *)
(* (src/unnamed/part_007, the current transport/api.ts).                   *)
(***************************************************************************)
EXTENDS Integers, Sequences, FiniteSets, TLC

VARIABLES
    configs,        \* Registry.configs: instance name -> LlngInstanceConfig
    transports,     \* Registry.transports: instance name -> TransportEntry
    nextId,         \* identity of the next transport object `new` creates
    lastCall,       \* the last getTransport or getOidcConfig call and what it returned or threw
    firstOk,        \* history: <<name, role>> -> the first transport returned
    built,          \* history: every transport construction, in order
    mgrReqs,        \* history: whether a manager-role request was already made, per instance
    ctorIo,         \* history: what the transport constructors did to the outside world, in order
    k8sConfig,      \* K8sTransport.config: which of its fields are set
    cachedPodName,  \* K8sTransport.cachedPodName
    kops,           \* the operations called on the K8s transport, by call order
    podAssigns,     \* history: how many times cachedPodName was assigned
    remote,         \* the REST endpoint's config history: its saved snapshots, oldest first
    lastWriter,     \* history: who saved the latest remote snapshot
    otherWrites,    \* history: saves made by another client of the endpoint
    apiOp,          \* the ApiTransport operation in flight, or the last one ended
    apiOps,         \* history: ApiTransport operations called so far
    reqlog,         \* history: the HTTP requests the current operation issued, in order
    sessOp,         \* the ApiTransport session operation in flight, or the last one ended
    sessLog,        \* history: the HTTP requests the current session operation issued
    mTarget,        \* deepMerge: the `target` of the last call (the current config)
    mSource,        \* deepMerge: the `source` of the last call (the parsed snippet)
    mResult,        \* deepMerge: what the last call returned
    mCount,         \* history: deepMerge calls made so far
    xProc,          \* the child process of the exec in flight and its captured stdout
    xHist,          \* history: every exec settled so far, what its child did and its outcome
    sshOp,          \* the operation called on the shell transport, and the processes it spawned
    rq,             \* the ApiTransport.request call in flight: what it sent, what fetch answered, its outcome
    spawned,        \* SshTransport.exec: the configuration and arguments of a call and the command it spawns
    quoted,         \* SshTransport.shellQuote: an argument and what the call returned for it
    searched,       \* sessionSearch: what its request returned, the idOnly flag, and what the operation returned
    shSearch,       \* SshTransport.sessionSearch: the filter of a call, the arguments it passed to the sessions binary, and its outcome
    tool,           \* the tool handler call in flight: the tool, what its registry and transport calls did, and what the handler returned or let escape
    xCall           \* one exec or kubectl call at a time: its promise, its child process, and the child's events awaiting dispatch

regVars == <<configs, transports, nextId, lastCall, firstOk, built, mgrReqs, ctorIo>>

k8sVars == <<k8sConfig, cachedPodName, kops, podAssigns>>

apiVars == <<remote, lastWriter, otherWrites, apiOp, apiOps, reqlog>>

sessVars == <<sessOp, sessLog>>

mergeVars == <<mTarget, mSource, mResult, mCount>>

execVars == <<xProc, xHist>>

sshVars == <<sshOp>>

rqVars == <<rq>>

composeVars == <<spawned, quoted>>

searchVars == <<searched>>

shSearchVars == <<shSearch>>

toolVars == <<tool>>

xCallVars == <<xCall>>

vars == <<configs, transports, nextId, lastCall, firstOk, built, mgrReqs, ctorIo,
          k8sConfig, cachedPodName, kops, podAssigns,
          remote, lastWriter, otherWrites, apiOp, apiOps, reqlog, sessOp, sessLog,
          mTarget, mSource, mResult, mCount, xProc, xHist, sshOp, rq, spawned, quoted, searched, shSearch, tool, xCall>>

\* What a step of one component leaves alone.
notReg == <<k8sVars, apiVars, sessVars, mergeVars, execVars, sshVars, rqVars, composeVars, searchVars, shSearchVars, toolVars, xCallVars>>
notK8s == <<regVars, apiVars, sessVars, mergeVars, execVars, sshVars, rqVars, composeVars, searchVars, shSearchVars, toolVars, xCallVars>>
notApi == <<regVars, k8sVars, sessVars, mergeVars, execVars, sshVars, rqVars, composeVars, searchVars, shSearchVars, toolVars, xCallVars>>
notSess == <<regVars, k8sVars, apiVars, mergeVars, execVars, sshVars, rqVars, composeVars, searchVars, shSearchVars, toolVars, xCallVars>>
notMerge == <<regVars, k8sVars, apiVars, sessVars, execVars, sshVars, rqVars, composeVars, searchVars, shSearchVars, toolVars, xCallVars>>
notExec == <<regVars, k8sVars, apiVars, sessVars, mergeVars, sshVars, rqVars, composeVars, searchVars, shSearchVars, toolVars, xCallVars>>
notSsh == <<regVars, k8sVars, apiVars, sessVars, mergeVars, execVars, rqVars, composeVars, searchVars, shSearchVars, toolVars, xCallVars>>
notRq == <<regVars, k8sVars, apiVars, sessVars, mergeVars, execVars, sshVars, composeVars, searchVars, shSearchVars, toolVars, xCallVars>>
notCompose == <<regVars, k8sVars, apiVars, sessVars, mergeVars, execVars, sshVars, rqVars, searchVars, shSearchVars, toolVars, xCallVars>>
notSearch == <<regVars, k8sVars, apiVars, sessVars, mergeVars, execVars, sshVars, rqVars, composeVars, shSearchVars, toolVars, xCallVars>>
notShSearch == <<regVars, k8sVars, apiVars, sessVars, mergeVars, execVars, sshVars, rqVars, composeVars, searchVars, toolVars, xCallVars>>
notTool == <<regVars, k8sVars, apiVars, sessVars, mergeVars, execVars, sshVars, rqVars, composeVars, searchVars, shSearchVars, xCallVars>>
notXCall == <<regVars, k8sVars, apiVars, sessVars, mergeVars, execVars, sshVars, rqVars, composeVars, searchVars, shSearchVars, toolVars>>

(***************************************************************************)
(* Transport Registry                                                      *)
(***************************************************************************)

\* `undefined`: an absent optional field or argument.
Undef == "undefined"

Modes == {"ssh", "k8s", "api"}
Roles == {"portal", "manager"}

\* The configured instance names, and the names a caller may pass.
Instances == {"i1", "i2"}
defaultInstance == "i1"

\* `configs` is a plain object: reading configs[name] for a name it does not
\* hold finds what Object.prototype holds under that name, if anything.
InheritedNames == {"constructor"}
Names == Instances \cup InheritedNames
NameArgs == Instances \cup {"zz", Undef}
RoleArgs == Roles \cup {Undef}

\* A params block is either absent or the block the file gave: "P" is the
\* instance's own block, "M" the manager override's.
Absent == "absent"

NoManager == [declared |-> FALSE, mode |-> Undef, ssh |-> Absent, api |-> Absent, k8s |-> Absent]

ManagerOverrides ==
    {NoManager} \cup
    [declared : {TRUE}, mode : Modes \cup {Undef},
     ssh : {Absent, "M"}, api : {Absent, "M"}, k8s : {Absent, "M"}]

InstanceConfigs ==
    [mode : Modes, ssh : {Absent, "P"}, api : {Absent, "P"}, k8s : {Absent, "P"},
     manager : ManagerOverrides]

\* The second instance has one fixed configuration: it is there to show that
\* entries are per name.
PlainConfigs ==
    { [mode |-> "k8s", ssh |-> Absent, api |-> Absent, k8s |-> "P",
       manager |-> [declared |-> TRUE, mode |-> "api", ssh |-> Absent, api |-> "M", k8s |-> Absent]] }

\* A transport object: `id` is its identity (0: no object), `params` the block(s)
\* its constructor received.
NoT == [id |-> 0, mode |-> Undef, params |-> <<>>]

NoEntry == [present |-> FALSE, portal |-> NoT, manager |-> NoT, managerResolved |-> FALSE]

\* A thrown Error, by the message family that identifies it.
ErrUnknown == "Unknown instance"
ErrConfig == "mode requires configuration"

\* resolveInstance: instance || defaultInstance, then the lookup.
ResolveName(instance) == IF instance = Undef THEN defaultInstance ELSE instance

\* Object.keys(this.configs)
ConfigKeys == DOMAIN configs

\* Object.prototype.constructor read as an instance config: a function, none
\* of whose mode, ssh, api, k8s, manager and oidc is defined.
InheritedValue ==
    [mode |-> Undef, ssh |-> Absent, api |-> Absent, k8s |-> Absent, manager |-> NoManager]

\* this.configs[name], for a name the lookup finds.
Lookup(name) == IF name \in DOMAIN configs THEN configs[name] ELSE InheritedValue

\* `if (!config)` is false: the lookup found a value.
ConfigFound(name) == name \in DOMAIN configs \/ name \in InheritedNames

\* The last call: the method, the name it resolved, the role, the transport
\* returned, the error thrown and the instance names the error's text lists.
NoCall == [op |-> Undef, name |-> Undef, role |-> Undef, res |-> NoT, err |-> Undef,
           listed |-> {}]

\* A buildTransport that guards the api branch only.
BuildThrowsApiOnly(cfg) == cfg.mode = "api" /\ cfg.api = Absent

\* buildTransport's two guards: the api and k8s branches throw on a missing block.
BuildThrows(cfg) ==
    \/ cfg.mode = "api" /\ cfg.api = Absent
    \/ cfg.mode = "k8s" /\ cfg.k8s = Absent

\* buildTransport: the object `new` returns, given the identity it gets.
BuildTransport(cfg, id) ==
    IF cfg.mode = "api" THEN [id |-> id, mode |-> "api", params |-> <<cfg.api>>]
    ELSE IF cfg.mode = "k8s" THEN [id |-> id, mode |-> "k8s", params |-> <<cfg.k8s>>]
    ELSE [id |-> id, mode |-> "ssh", params |-> cfg.ssh]

\* config.verifySsl !== false: the manager override's api block is one that
\* sets verifySsl to false.
VerifySsl(block) == block # "M"

\* A K8sTransport constructor that resolves its pod at once.
ConstructorIoEager(cfg) == IF cfg.mode = "k8s" THEN <<"spawn">> ELSE <<>>

\* What the constructor buildTransport calls does to the outside world: the
\* shell and Kubernetes constructors resolve the binary paths, the API one
\* strips the base URL and, with verifySsl false, logs a warning with
\* console.error and creates an https.Agent.
ConstructorIo(cfg) ==
    IF cfg.mode = "api" /\ ~VerifySsl(cfg.api) THEN <<"console.error">> ELSE <<>>

\* config.ssh ?? {} and { ...config.ssh, ...m.ssh }: the blocks spread, in order.
Spread(block) == IF block = Absent THEN <<>> ELSE <<block>>

\* A getTransport that builds a manager transport for every instance.
HasManagerAlways(config) == TRUE

\* `if (!config.manager) return undefined`: a manager override is declared.
HasManager(config) == config.manager.declared

\* buildManagerConfig, for a config that declares a manager override.
BuildManagerConfig(config) ==
    LET m == config.manager
        mode == IF m.mode = Undef THEN config.mode ELSE m.mode
    IN  [mode |-> mode,
         ssh |-> IF config.mode = "ssh" \/ mode = "ssh"
                 THEN Spread(config.ssh) \o Spread(m.ssh)
                 ELSE <<>>,
         api |-> IF m.api # Absent THEN m.api
                 ELSE IF config.api # Absent /\ mode = "api" THEN config.api
                 ELSE Absent,
         k8s |-> IF m.k8s # Absent THEN m.k8s
                 ELSE IF config.k8s # Absent /\ mode = "k8s" THEN config.k8s
                 ELSE Absent]

\* The LlngConfig buildTransport sees for the portal role.
PortalConfig(config) ==
    [mode |-> config.mode, ssh |-> Spread(config.ssh), api |-> config.api, k8s |-> config.k8s]

RegInit ==
    /\ configs \in [Instances -> InstanceConfigs]
    /\ configs["i2"] \in PlainConfigs
    /\ transports = [n \in Names |-> NoEntry]
    /\ nextId = 1
    /\ lastCall = NoCall
    /\ firstOk = [k \in Names \X Roles |-> NoT]
    /\ built = <<>>
    /\ mgrReqs = [n \in Names |-> FALSE]
    /\ ctorIo = <<>>

\* A getTransport that never finds its entry in the map.
EntryMissingAlways(entry) == TRUE

\* `if (!entry)`: the map holds no entry for the name yet.
EntryMissing(entry) == ~entry.present

\* A getTransport that resolves the manager slot for either role.
ManagerUnresolvedAnyRole(entry, role) == ~entry.managerResolved

\* `if (role === "manager") { if (!entry.managerResolved)`: the manager slot is
\* resolved now.
ManagerUnresolved(entry, role) == role = "manager" /\ ~entry.managerResolved

\* getTransport, for an unknown name: resolveInstance throws, nothing is touched.
GetTransportUnknown(instance, role) ==
    /\ ~ConfigFound(ResolveName(instance))
    /\ lastCall' = [NoCall EXCEPT !.op = "getTransport", !.name = ResolveName(instance),
                                  !.role = IF role = "manager" THEN "manager" ELSE "portal",
                                  !.err = ErrUnknown, !.listed = ConfigKeys]
    /\ UNCHANGED <<configs, transports, nextId, firstOk, built, mgrReqs, ctorIo>>
    /\ UNCHANGED notReg

\* getTransport, for a known name: the whole method.
GetTransportKnown(instance, role) ==
    /\ ConfigFound(ResolveName(instance))
    /\ LET name == ResolveName(instance)
           config == Lookup(name)
           reqRole == IF role = "manager" THEN "manager" ELSE "portal"
           old == transports[name]
           needPortal == EntryMissing(old)
           portalThrows == needPortal /\ BuildThrows(PortalConfig(config))
           \* after `if (!entry) { ... }`
           e1 == IF needPortal
                 THEN [present |-> TRUE, portal |-> BuildTransport(PortalConfig(config), nextId),
                       manager |-> NoT, managerResolved |-> FALSE]
                 ELSE old
           id1 == IF needPortal THEN nextId + 1 ELSE nextId
           b1 == IF needPortal
                 THEN Append(built, [slot |-> "portal", name |-> name, by |-> reqRole,
                                     later |-> mgrReqs[name], id |-> nextId])
                 ELSE built
           c1 == IF needPortal THEN ctorIo \o ConstructorIo(PortalConfig(config)) ELSE ctorIo
           resolveMgr == ManagerUnresolved(e1, role)
           mcfg == BuildManagerConfig(config)
           buildMgr == resolveMgr /\ HasManager(config)
           mgrThrows == buildMgr /\ BuildThrows(mcfg)
           e2 == IF resolveMgr
                 THEN [e1 EXCEPT !.manager = IF buildMgr THEN BuildTransport(mcfg, id1) ELSE NoT,
                                 !.managerResolved = TRUE]
                 ELSE e1
           id2 == IF buildMgr THEN id1 + 1 ELSE id1
           b2 == IF buildMgr
                 THEN Append(b1, [slot |-> "manager", name |-> name, by |-> reqRole,
                                  later |-> mgrReqs[name], id |-> id1])
                 ELSE b1
           c2 == IF buildMgr THEN c1 \o ConstructorIo(mcfg) ELSE c1
           result == IF role = "manager" /\ e2.manager # NoT THEN e2.manager ELSE e2.portal
           reqs == [mgrReqs EXCEPT ![name] = @ \/ role = "manager"]
       IN  IF portalThrows
           THEN /\ lastCall' = [NoCall EXCEPT !.op = "getTransport", !.name = name, !.role = reqRole,
                                           !.err = ErrConfig]
                /\ mgrReqs' = reqs
                /\ UNCHANGED <<configs, transports, nextId, firstOk, built, ctorIo>>
           ELSE IF mgrThrows
           THEN \* the portal entry made above stays in the map
                /\ transports' = [transports EXCEPT ![name] = e1]
                /\ nextId' = id1
                /\ built' = b1
                /\ ctorIo' = c1
                /\ lastCall' = [NoCall EXCEPT !.op = "getTransport", !.name = name, !.role = reqRole,
                                           !.err = ErrConfig]
                /\ mgrReqs' = reqs
                /\ UNCHANGED <<configs, firstOk>>
           ELSE /\ transports' = [transports EXCEPT ![name] = e2]
                /\ nextId' = id2
                /\ built' = b2
                /\ ctorIo' = c2
                /\ lastCall' = [NoCall EXCEPT !.op = "getTransport", !.name = name, !.role = reqRole,
                                           !.res = result]
                /\ firstOk' = IF firstOk[<<name, reqRole>>] = NoT
                              THEN [firstOk EXCEPT ![<<name, reqRole>>] = result]
                              ELSE firstOk
                /\ mgrReqs' = reqs
                /\ UNCHANGED configs
    /\ UNCHANGED notReg

GetTransport(instance, role) ==
    \/ GetTransportUnknown(instance, role)
    \/ GetTransportKnown(instance, role)

RegNext == \E instance \in NameArgs, role \in RoleArgs : GetTransport(instance, role)

\* getOidcConfig(instance): resolveInstance, then config.oidc. The call touches
\* neither the map nor the configs.
GetOidcConfig(instance) ==
    /\ lastCall' = IF ConfigFound(ResolveName(instance))
                   THEN [NoCall EXCEPT !.op = "getOidcConfig", !.name = ResolveName(instance)]
                   ELSE [NoCall EXCEPT !.op = "getOidcConfig", !.name = ResolveName(instance),
                                       !.err = ErrUnknown, !.listed = ConfigKeys]
    /\ UNCHANGED <<configs, transports, nextId, firstOk, built, mgrReqs, ctorIo>>
    /\ UNCHANGED notReg

\* Calls by names of every kind: a configured one, one found nowhere, one that
\* Object.prototype holds, and none.
ResolveArgs == {"i1", "zz", Undef} \cup InheritedNames

ResolveNext ==
    \/ \E instance \in ResolveArgs, role \in RoleArgs : GetTransport(instance, role)
    \/ \E instance \in ResolveArgs : GetOidcConfig(instance)


(***************************************************************************)
(* Kubernetes transport: pod resolution and exec                           *)
(***************************************************************************)

\* Operations called on one transport instance during its lifetime.
MaxOps == 2

\* Ids an id-list sessionDelete may carry.
MaxIds == 2

Ops == 1..MaxOps

\* `null`, the initial cachedPodName.
Null == <<>>

\* What kubectl may write to stdout for the pod-list query, as characters.
Blank == " "
ListOutputs ==
    { <<>>, <<"{", "}">>, <<Blank>>, <<"a">>, <<"b", Blank>> }

\* How a child process ends: "close" with an exit code, or "error".
ExitCodes == {0, 1}

RECURSIVE TrimStart(_)
TrimStart(s) == IF s # <<>> /\ Head(s) = Blank THEN TrimStart(Tail(s)) ELSE s

RECURSIVE TrimEnd(_)
TrimEnd(s) ==
    IF s # <<>> /\ s[Len(s)] = Blank THEN TrimEnd(SubSeq(s, 1, Len(s) - 1)) ELSE s

\* String.prototype.trim
Trim(s) == TrimEnd(TrimStart(s))

\* resolvePod's test of the pod-list output: no pod was found.
\* A test that takes only "{}" for no pod.
NoPodFoundBraces(podName) == podName = <<"{", "}">>

NoPodFound(podName) == podName = <<>> \/ podName = <<"{", "}">> \/ Trim(podName) = <<>>

\* A resolvePod that never reads its cache.
CacheHitNever(cached) == FALSE

\* `if (this.cachedPodName)`: the cache answers, no query is made.
CacheHit(cached) == cached # Null

\* A kubectl that resolves whatever the exit code is.
KubectlFailedNever(code) == FALSE

\* `if (code !== 0)` in the close handler of kubectl.
KubectlFailed(code) == code # 0

\* resolvePod's two configuration guards, before any process is spawned.
K8sConfigThrows(cfg) == ~cfg.namespace \/ ~cfg.selector

\* The 2FA and consent operations of the transport interface.
TwoFactorAndConsent ==
    {"secondFactorsGet", "secondFactorsDelete", "secondFactorsDelType",
     "consentsGet", "consentsDelete"}

\* Only the 2FA operations.
UnsupportedOnly2FA == {"secondFactorsGet", "secondFactorsDelete", "secondFactorsDelType"}

\* The operations whose body throws at once on the shell and Kubernetes
\* transports.
UnsupportedOps ==
    {"secondFactorsGet", "secondFactorsDelete", "secondFactorsDelType",
     "consentsGet", "consentsDelete"}

\* A sessionDelete that hands all its ids to one command.
InvocationsBatched(kind, n) == 1

\* The commands an operation runs, one process each: sessionDelete without a
\* where filter runs the delete script once per id ("deleteIds", n ids),
\* sessionDelete with a where filter runs the sessions tool once whatever ids
\* it is given ("deleteWhere"), and so does every other supported operation
\* ("exec").
Invocations(kind, n) == IF kind = "deleteIds" THEN n ELSE 1

\* Operation kinds: "exec", "deleteIds", "deleteWhere" and the names of the
\* 2FA/consent operations, which run no command.
\* An operation's record: where it stands (pc), the execs it has still to start
\* (todo), the kubectl processes it spawned (lists: pod-list queries, execs:
\* kubectl exec, pods: the pod names those named), whether every earlier
\* operation had ended when it was called (after), and the error it threw.
NoOp == [pc |-> "idle", kind |-> Undef, ids |-> 0, todo |-> 0, lists |-> 0, execs |-> 0,
         pods |-> {}, after |-> FALSE, err |-> Undef]

ErrNoPod == "No pod found"
ErrK8sConfig == "is required but not configured"
ErrExit == "kubectl command failed with exit code"
ErrSpawn == "kubectl command execution failed"
ErrUseApi == "is not supported via CLI. Use API mode."

Ended(op) == op.pc \in {"done", "failed"}

K8sInit ==
    /\ k8sConfig \in [namespace : BOOLEAN, selector : BOOLEAN]
    /\ cachedPodName = Null
    /\ kops = [o \in Ops |-> NoOp]
    /\ podAssigns = 0

K8sIdle ==
    /\ k8sConfig = [namespace |-> TRUE, selector |-> TRUE]
    /\ cachedPodName = Null
    /\ kops = [o \in Ops |-> NoOp]
    /\ podAssigns = 0

\* exec(command) up to its first await that waits on a process: resolvePod
\* answers from the cache and kubectl exec is spawned, or resolvePod throws on
\* the configuration, or it spawns the pod-list query.
BeginExec(o, op) ==
    IF CacheHit(cachedPodName)
    THEN /\ kops' = [kops EXCEPT ![o] = [op EXCEPT !.pc = "exec", !.execs = @ + 1,
                                                   !.pods = @ \cup {cachedPodName}]]
         /\ UNCHANGED <<k8sConfig, cachedPodName, podAssigns>>
    ELSE IF K8sConfigThrows(k8sConfig)
    THEN /\ kops' = [kops EXCEPT ![o] = [op EXCEPT !.pc = "failed", !.err = ErrK8sConfig]]
         /\ UNCHANGED <<k8sConfig, cachedPodName, podAssigns>>
    ELSE /\ kops' = [kops EXCEPT ![o] = [op EXCEPT !.pc = "listing", !.lists = @ + 1]]
         /\ UNCHANGED <<k8sConfig, cachedPodName, podAssigns>>

\* A caller invokes the next operation of the instance.
K8sCall(o, kind, n) ==
    /\ kops[o].pc = "idle"
    /\ \A p \in Ops : p < o => kops[p].pc # "idle"
    /\ LET op == [NoOp EXCEPT !.kind = kind, !.ids = n,
                              !.after = \A p \in Ops : p < o => Ended(kops[p])]
       IN  IF kind \in UnsupportedOps
           THEN /\ kops' = [kops EXCEPT ![o] = [op EXCEPT !.pc = "failed", !.err = ErrUseApi]]
                /\ UNCHANGED <<k8sConfig, cachedPodName, podAssigns>>
           ELSE IF Invocations(kind, n) = 0
           THEN /\ kops' = [kops EXCEPT ![o] = [op EXCEPT !.pc = "done"]]
                /\ UNCHANGED <<k8sConfig, cachedPodName, podAssigns>>
           ELSE BeginExec(o, [op EXCEPT !.todo = Invocations(kind, n) - 1])
    /\ UNCHANGED notK8s

\* The pod-list process ends with a "close" event: resolvePod's continuation,
\* then exec's (the kubectl exec is spawned in the same turn).
K8sListClose(o, code, out) ==
    /\ kops[o].pc = "listing"
    /\ IF KubectlFailed(code)
       THEN /\ kops' = [kops EXCEPT ![o].pc = "failed", ![o].err = ErrExit]
            /\ UNCHANGED <<k8sConfig, cachedPodName, podAssigns>>
       ELSE IF NoPodFound(out)
       THEN /\ kops' = [kops EXCEPT ![o].pc = "failed", ![o].err = ErrNoPod]
            /\ UNCHANGED <<k8sConfig, cachedPodName, podAssigns>>
       ELSE /\ cachedPodName' = Trim(out)
            /\ podAssigns' = podAssigns + 1
            /\ kops' = [kops EXCEPT ![o].pc = "exec", ![o].execs = @ + 1,
                                    ![o].pods = @ \cup {Trim(out)}]
            /\ UNCHANGED k8sConfig
    /\ UNCHANGED notK8s

\* The pod-list process could not be started: the "error" event.
K8sListError(o) ==
    /\ kops[o].pc = "listing"
    /\ kops' = [kops EXCEPT ![o].pc = "failed", ![o].err = ErrSpawn]
    /\ UNCHANGED <<k8sConfig, cachedPodName, podAssigns>>
    /\ UNCHANGED notK8s

\* The kubectl exec process ends with a "close" event; an id-list delete goes
\* on to its next id.
K8sExecClose(o, code) ==
    /\ kops[o].pc = "exec"
    /\ IF KubectlFailed(code)
       THEN /\ kops' = [kops EXCEPT ![o].pc = "failed", ![o].err = ErrExit]
            /\ UNCHANGED <<k8sConfig, cachedPodName, podAssigns>>
       ELSE IF kops[o].todo = 0
       THEN /\ kops' = [kops EXCEPT ![o].pc = "done"]
            /\ UNCHANGED <<k8sConfig, cachedPodName, podAssigns>>
       ELSE BeginExec(o, [kops[o] EXCEPT !.todo = @ - 1])
    /\ UNCHANGED notK8s

\* The kubectl exec process could not be started.
K8sExecError(o) ==
    /\ kops[o].pc = "exec"
    /\ kops' = [kops EXCEPT ![o].pc = "failed", ![o].err = ErrSpawn]
    /\ UNCHANGED <<k8sConfig, cachedPodName, podAssigns>>
    /\ UNCHANGED notK8s

\* The steps of the operations S of the instance.
K8sSteps(S) ==
    \/ \E o \in S : K8sCall(o, "exec", 0)
    \/ \E o \in S, n \in 0..MaxIds : K8sCall(o, "deleteIds", n)
    \/ \E o \in S : K8sCall(o, "deleteWhere", MaxIds)
    \/ \E o \in S, kind \in TwoFactorAndConsent : K8sCall(o, kind, 0)
    \/ \E o \in S, code \in ExitCodes, out \in ListOutputs : K8sListClose(o, code, out)
    \/ \E o \in S : K8sListError(o)
    \/ \E o \in S, code \in ExitCodes : K8sExecClose(o, code)
    \/ \E o \in S : K8sExecError(o)

K8sNext == K8sSteps(Ops)

(***************************************************************************)
(* Shell transport: the operations and the processes they spawn            *)
(***************************************************************************)

\* The operation record: where it stands (pc), the ids it was given, the
\* commands it has still to run (todo), the processes it spawned (execs) and
\* the error it threw.
NoSshOp == [pc |-> "idle", kind |-> Undef, ids |-> 0, todo |-> 0, execs |-> 0, err |-> Undef]

SshErrExit == "Command failed with exit code"
SshErrSpawn == "Command execution failed"

SshInit == sshOp = NoSshOp

\* exec(args): the child process is spawned.
SshBeginExec(op) == sshOp' = [op EXCEPT !.pc = "exec", !.execs = @ + 1]

\* A caller invokes an operation. The transport keeps nothing from one
\* operation to the next, so a run calls one.
SshCall(kind, n) ==
    /\ sshOp.pc = "idle"
    /\ LET op == [NoSshOp EXCEPT !.kind = kind, !.ids = n]
       IN  IF kind \in UnsupportedOps
           THEN sshOp' = [op EXCEPT !.pc = "failed", !.err = ErrUseApi]
           ELSE IF Invocations(kind, n) = 0
           THEN sshOp' = [op EXCEPT !.pc = "done"]
           ELSE SshBeginExec([op EXCEPT !.todo = Invocations(kind, n) - 1])
    /\ UNCHANGED notSsh

\* An exec that resolves whatever the exit code is.
ExitFailedNever(code) == FALSE

\* `if (code !== 0)` in the close handler of exec.
ExitFailed(code) == code # 0

\* The child exits; an id-list delete goes on to its next id.
SshExecClose(code) ==
    /\ sshOp.pc = "exec"
    /\ IF ExitFailed(code)
       THEN sshOp' = [sshOp EXCEPT !.pc = "failed", !.err = SshErrExit]
       ELSE IF sshOp.todo = 0
       THEN sshOp' = [sshOp EXCEPT !.pc = "done"]
       ELSE SshBeginExec([sshOp EXCEPT !.todo = @ - 1])
    /\ UNCHANGED notSsh

\* The child could not be started.
SshExecError ==
    /\ sshOp.pc = "exec"
    /\ sshOp' = [sshOp EXCEPT !.pc = "failed", !.err = SshErrSpawn]
    /\ UNCHANGED notSsh

SshNext ==
    \/ SshCall("exec", 0)
    \/ \E n \in 0..MaxIds : SshCall("deleteIds", n)
    \/ SshCall("deleteWhere", MaxIds)
    \/ \E kind \in TwoFactorAndConsent : SshCall(kind, 0)
    \/ \E code \in ExitCodes : SshExecClose(code)
    \/ SshExecError

(***************************************************************************)
(* JSON values, as the API transport handles them                          *)
(***************************************************************************)

\* A JSON value carries its type: strings, numbers, objects (a function from
\* keys), arrays (a sequence), null, and JavaScript's `undefined`.
Str(x) == [t |-> "str", v |-> x]
Num(n) == [t |-> "num", v |-> n]
Obj(f) == [t |-> "obj", v |-> f]
Arr(q) == [t |-> "arr", v |-> q]
JNull == [t |-> "null", v |-> 0]
JUndef == [t |-> "undef", v |-> 0]
EmptyObj == Obj(<<>>)

\* JavaScript truthiness: `if (x)`, `!x`, `x || y`.
Truthy(x) == ~(x.t \in {"null", "undef"} \/ x = Num(0) \/ x = Str(""))

\* o[k], for an object o.
Get(o, k) == IF k \in DOMAIN o.v THEN o.v[k] ELSE JUndef

\* o[k] = val, for an object o.
Put(o, k, val) == Obj([j \in DOMAIN o.v \cup {k} |-> IF j = k THEN val ELSE o.v[j]])

\* delete o[k], for an object o.
Del(o, k) == Obj([j \in DOMAIN o.v \ {k} |-> o.v[j]])

\* The property name of an array index.
IdxKeys == <<"0", "1", "2">>

\* A spread that copies nothing.
NoProps(x) == EmptyObj

\* { ...x }: the own enumerable properties of x. An array spreads to its
\* indices, a string to its characters (the model's strings have at most one),
\* a number, null or undefined to nothing.
OwnProps(x) ==
    CASE x.t = "obj" -> x
      [] x.t = "arr" ->
            Obj([k \in {IdxKeys[i] : i \in 1..Len(x.v)} |->
                    x.v[CHOOSE i \in 1..Len(x.v) : IdxKeys[i] = k]])
      [] x.t = "str" /\ x.v # "" -> Obj([k \in {"0"} |-> x])
      [] OTHER -> EmptyObj

\* A spread that copies the first object only.
SpreadFirst(a, b) == OwnProps(a)

\* { ...a, ...b }
SpreadBoth(a, b) ==
    LET x == OwnProps(a)
        y == OwnProps(b)
    IN  Obj([k \in DOMAIN x.v \cup DOMAIN y.v |-> IF k \in DOMAIN y.v THEN y.v[k] ELSE x.v[k]])

\* The keys deepMerge skips.
ProtoKeys == {"__proto__", "constructor", "prototype"}

\* A merge of the top level only: { ...target, ...source }.
ShallowMerge(target, source) == SpreadBoth(target, source)

\* deepMerge(target, source)
RECURSIVE DeepMerge(_, _)
DeepMerge(target, source) ==
    LET base == OwnProps(target)
        src == OwnProps(source)
        keys == DOMAIN src.v \ ProtoKeys
    IN  Obj([k \in DOMAIN base.v \cup keys |->
                IF k \in keys
                THEN IF src.v[k].t = "obj"
                     THEN DeepMerge(IF Truthy(Get(base, k)) THEN Get(base, k) ELSE EmptyObj,
                                    src.v[k])
                     ELSE src.v[k]
                ELSE base.v[k]])

(***************************************************************************)
(* API transport: the config operations                                    *)
(***************************************************************************)

\* ApiTransport operations called during one run.
MaxApiOps == 2

\* Saves another client of the endpoint makes during one run.
MaxOtherWrites == 1

ErrRollback == "Cannot rollback: already at first config"
ErrHttp == "API request failed: HTTP status"
ErrNet == "API request failed: fetch failed"
ErrType == "TypeError"

\* The endpoint's snapshots before the run: one or two saved versions, the
\* first numbered 0 or 1.
Snap0(n) == Obj([cfgNum |-> Num(n), domain |-> Str("a"), mail |-> Str("a")])
Snap1(n) ==
    Obj([cfgNum |-> Num(n), domain |-> Str("b"), mail |-> Str("a"),
         opts |-> Obj([k1 |-> Str("a")])])

RemoteHistories ==
    UNION { { <<Snap0(f)>>, <<Snap0(f), Snap1(f + 1)>> } : f \in {0, 1} }

Latest == remote[Len(remote)]

NumOf(cfg) == Get(cfg, "cfgNum").v

\* GET /api/v1/config/{n}: the saved snapshots numbered n.
Saved(n) == { remote[i] : i \in {j \in 1..Len(remote) : NumOf(remote[j]) = n} }

\* PUT /api/v1/config: the endpoint saves the body as the next version.
Save(body) == Append(remote, Put(body, "cfgNum", Num(NumOf(Latest) + 1)))

\* The arguments of the config operations.
NoArg == [pairs |-> EmptyObj, log |-> Undef, key |-> Undef, subkey |-> Undef,
          value |-> JUndef, snippet |-> JUndef]

SetArgs ==
    { [NoArg EXCEPT !.pairs = p, !.log = l] :
        p \in { Obj([domain |-> Str("c")]), Obj([domain |-> Str("c"), opts |-> Str("c")]),
                Obj([cfgLog |-> Str("c")]) },
        l \in {Undef, "", "L"} }

AddKeyArgs ==
    { [NoArg EXCEPT !.key = k, !.subkey = "k2", !.value = Str("c")] : k \in {"opts", "domain"} }

DelKeyArgs ==
    { [NoArg EXCEPT !.key = "opts", !.subkey = sk] : sk \in {"k1", "k2"} }
        \cup { [NoArg EXCEPT !.key = "domain", !.subkey = "k1"] }

MergeArgs ==
    { [NoArg EXCEPT !.snippet = sn] :
        sn \in { EmptyObj, Obj([domain |-> Str("c")]), Obj([opts |-> Obj([k2 |-> Str("c")])]) } }

ApiCalls ==
    ({"configSet"} \X SetArgs) \cup ({"configAddKey"} \X AddKeyArgs)
        \cup ({"configDelKey"} \X DelKeyArgs) \cup ({"configMerge"} \X MergeArgs)
        \cup ({"configRollback"} \X {NoArg})

\* A request: request(method, path, body).
Req(method, path, body) == [method |-> method, path |-> path, body |-> body]

GetLatest == Req("GET", <<"config", "latest">>, JUndef)
GetVersion(n) == Req("GET", <<"config", n>>, JUndef)
PutConfig(body) == Req("PUT", <<"config">>, body)

\* The operation record: what was called (kind, arg), where it stands (pc: the
\* request it awaits), what its GETs returned (cur, prev), the error it threw,
\* and whether another client saved after its read and before its write.
NoApiOp == [kind |-> Undef, arg |-> NoArg, pc |-> "idle", cur |-> JUndef, prev |-> JUndef,
            err |-> Undef, stale |-> FALSE]

ApiInit ==
    /\ remote \in RemoteHistories
    /\ lastWriter = "nobody"
    /\ otherWrites = 0
    /\ apiOp = NoApiOp
    /\ apiOps = 0
    /\ reqlog = <<>>

ApiIdle ==
    /\ remote = <<Snap0(1)>>
    /\ lastWriter = "nobody"
    /\ otherWrites = 0
    /\ apiOp = NoApiOp
    /\ apiOps = 0
    /\ reqlog = <<>>

\* A configSet that sends only the changed keys.
ConfigSetBodyPairsOnly(cur, pairs, log) ==
    IF log # Undef /\ log # "" THEN Put(pairs, "cfgLog", Str(log)) ELSE pairs

\* configSet: { ...currentConfig, ...pairs }, then cfgLog when a log is given.
ConfigSetBody(cur, pairs, log) ==
    LET updated == SpreadBoth(cur, pairs)
    IN  IF log # Undef /\ log # "" THEN Put(updated, "cfgLog", Str(log)) ELSE updated

\* configAddKey: whether `config[key][subkey] = value` throws (the module is
\* strict code: a property cannot be created on a primitive).
AddKeyThrows(cur, key) == Truthy(Get(cur, key)) /\ Get(cur, key).t \in {"str", "num"}

\* configAddKey: the config as JSON.stringify sees it after the assignment (a
\* named property set on an array is not serialized).
ConfigAddKeyBody(cur, key, subkey, value) ==
    LET old == IF Truthy(Get(cur, key)) THEN Get(cur, key) ELSE EmptyObj
    IN  IF old.t = "obj" THEN Put(cur, key, Put(old, subkey, value)) ELSE Put(cur, key, old)

\* configDelKey: whether `subkey in config[key]` throws: the right operand of
\* `in` is reached when config[key] is truthy and must be an object.
DelKeyThrows(cur, key) == Truthy(Get(cur, key)) /\ Get(cur, key).t \in {"str", "num"}

\* configDelKey: `config[key] && subkey in config[key]`, for an object or a
\* missing key.
DelKeyPresent(cur, key, subkey) ==
    Truthy(Get(cur, key)) /\ Get(cur, key).t = "obj" /\ subkey \in DOMAIN Get(cur, key).v

ConfigDelKeyBody(cur, key, subkey) == Put(cur, key, Del(Get(cur, key), subkey))

\* A boundary test that lets version 1 through.
AtFirstConfigBelowOne(currentNum) == currentNum < 1

\* configRollback: `if (currentNum <= 1)`.
AtFirstConfig(currentNum) == currentNum <= 1

\* A rollback that fetches the current version again.
PreviousNumSame(currentNum) == currentNum

\* configRollback: the version it fetches, `currentNum - 1`.
PreviousNum(currentNum) == currentNum - 1

Pending == apiOp.pc \in {"get1", "get2", "put"}

\* A caller invokes a config operation: each starts with GET /config/latest.
ApiCall(kind, arg) ==
    /\ ~Pending
    /\ apiOps < MaxApiOps
    /\ apiOp' = [NoApiOp EXCEPT !.kind = kind, !.arg = arg, !.pc = "get1"]
    /\ apiOps' = apiOps + 1
    /\ reqlog' = <<GetLatest>>
    /\ UNCHANGED <<remote, lastWriter, otherWrites>>
    /\ UNCHANGED notApi

\* The pending request fails: a non-2xx response, or fetch rejects. request()
\* rethrows either with its prefix and the operation ends there.
ApiRequestFails(err) ==
    /\ Pending
    /\ apiOp' = [apiOp EXCEPT !.pc = "failed", !.err = err]
    /\ UNCHANGED <<remote, lastWriter, otherWrites, apiOps, reqlog>>
    /\ UNCHANGED notApi

\* The operation issues its PUT and awaits it.
IssuePut(cur, body) ==
    /\ apiOp' = [apiOp EXCEPT !.pc = "put", !.cur = cur]
    /\ reqlog' = Append(reqlog, PutConfig(body))

Throw(cur, err) ==
    /\ apiOp' = [apiOp EXCEPT !.pc = "failed", !.cur = cur, !.err = err]
    /\ UNCHANGED reqlog

\* GET /config/latest answers: the operation's code up to its next await.
ApiLatestReturns ==
    /\ apiOp.pc = "get1"
    /\ LET cur == Latest
           a == apiOp.arg
       IN  CASE apiOp.kind = "configSet" ->
                    IssuePut(cur, ConfigSetBody(cur, a.pairs, a.log))
             [] apiOp.kind = "configAddKey" ->
                    IF AddKeyThrows(cur, a.key)
                    THEN Throw(cur, ErrType)
                    ELSE IssuePut(cur, ConfigAddKeyBody(cur, a.key, a.subkey, a.value))
             [] apiOp.kind = "configDelKey" ->
                    IF DelKeyThrows(cur, a.key)
                    THEN Throw(cur, ErrType)
                    ELSE IF DelKeyPresent(cur, a.key, a.subkey)
                    THEN IssuePut(cur, ConfigDelKeyBody(cur, a.key, a.subkey))
                    ELSE /\ apiOp' = [apiOp EXCEPT !.pc = "done", !.cur = cur]
                         /\ UNCHANGED reqlog
             [] apiOp.kind = "configMerge" ->
                    IssuePut(cur, DeepMerge(cur, a.snippet))
             [] apiOp.kind = "configRollback" ->
                    IF AtFirstConfig(NumOf(cur))
                    THEN Throw(cur, ErrRollback)
                    ELSE /\ apiOp' = [apiOp EXCEPT !.pc = "get2", !.cur = cur]
                         /\ reqlog' = Append(reqlog, GetVersion(PreviousNum(NumOf(cur))))
    /\ UNCHANGED <<remote, lastWriter, otherWrites, apiOps>>
    /\ UNCHANGED notApi

\* GET /config/{n} answers with the snapshot saved under n; configRollback PUTs it.
ApiVersionReturns ==
    /\ apiOp.pc = "get2"
    /\ \E previous \in Saved(reqlog[Len(reqlog)].path[2]) :
          /\ apiOp' = [apiOp EXCEPT !.pc = "put", !.prev = previous]
          /\ reqlog' = Append(reqlog, PutConfig(previous))
    /\ UNCHANGED <<remote, lastWriter, otherWrites, apiOps>>
    /\ UNCHANGED notApi

\* PUT /config answers 2xx: the endpoint has saved the body; the operation ends.
ApiPutReturns ==
    /\ apiOp.pc = "put"
    /\ remote' = Save(reqlog[Len(reqlog)].body)
    /\ lastWriter' = "transport"
    /\ apiOp' = [apiOp EXCEPT !.pc = "done"]
    /\ UNCHANGED <<otherWrites, apiOps, reqlog>>
    /\ UNCHANGED notApi

\* Another client of the endpoint saves a config of its own: the latest one
\* with its `mail` key changed.
OtherClientSaves ==
    /\ otherWrites < MaxOtherWrites
    /\ remote' = Save(Put(Latest, "mail", Str("z")))
    /\ lastWriter' = "other"
    /\ otherWrites' = otherWrites + 1
    /\ apiOp' = [apiOp EXCEPT !.stale = @ \/ apiOp.pc \in {"get2", "put"}]
    /\ UNCHANGED <<apiOps, reqlog>>
    /\ UNCHANGED notApi

ApiNext ==
    \/ \E c \in ApiCalls : ApiCall(c[1], c[2])
    \/ \E err \in {ErrHttp, ErrNet} : ApiRequestFails(err)
    \/ ApiLatestReturns
    \/ ApiVersionReturns
    \/ ApiPutReturns
    \/ OtherClientSaves

(***************************************************************************)
(* API transport: the session operations                                   *)
(***************************************************************************)

SessionIds == {"s1", "s2"}

\* An optional `where` record and an optional `select` list.
NoWhere == [given |-> FALSE, clauses |-> <<>>]
Where(f) == [given |-> TRUE, clauses |-> f]
NoSelect == [given |-> FALSE, fields |-> <<>>]
Select(q) == [given |-> TRUE, fields |-> q]

\* The `where` records a caller passes: none, one on a user field, one on the
\* session type.
Wheres == {NoWhere, Where([uid |-> "u"]), Where([_type |-> "x"])}

\* SessionGetOptions, SessionDeleteOptions and SessionFilter in one record; a
\* flag left out is `undefined` and reads as false.
SessionOptions ==
    [backend : {Undef, "saml"}, refreshTokens : BOOLEAN, persistent : BOOLEAN,
     hash : BOOLEAN, where : Wheres,
     select : {NoSelect}, idOnly : {FALSE}, count : {FALSE}]

SearchFilters ==
    [backend : {Undef, "saml"}, refreshTokens : BOOLEAN, persistent : BOOLEAN,
     hash : BOOLEAN, where : Wheres,
     select : {NoSelect, Select(<<"uid">>)}, idOnly : BOOLEAN, count : BOOLEAN]

IdLists == { <<>>, <<"s1">>, <<"s1", "s2">> }

\* resolveBackend(options)
ResolveBackend(options) ==
    IF options.persistent THEN "persistent"
    ELSE IF options.refreshTokens THEN "oidc"
    ELSE IF options.backend # Undef THEN options.backend
    ELSE "global"

\* sessionSearch's own choice of the backend.
SearchBackend(filters) ==
    LET b0 == IF filters.backend # Undef THEN filters.backend ELSE "global"
        b1 == IF filters.persistent THEN "persistent" ELSE b0
    IN  IF filters.refreshTokens THEN "oidc" ELSE b1

\* sessionBackup's own choice of the backend.
BackupBackend(backend, refreshTokens, persistent) ==
    LET b0 == IF backend # Undef THEN backend ELSE "global"
        b1 == IF persistent THEN "persistent" ELSE b0
    IN  IF refreshTokens THEN "oidc" ELSE b1

\* { ...filters.where, _type: "refresh_token" }
WithRefreshType(clauses) ==
    [k \in DOMAIN clauses \cup {"_type"} |->
        IF k = "_type" THEN "refresh_token" ELSE clauses[k]]

\* sessionSearch's `where` query parameter.
SearchWhere(filters) ==
    IF filters.refreshTokens
    THEN Where(WithRefreshType(filters.where.clauses))
    ELSE filters.where

\* sessionSearch's `select` query parameter.
SearchSelect(filters) ==
    IF filters.idOnly THEN Select(<<"_session_id">>)
    ELSE IF filters.select.given /\ Len(filters.select.fields) > 0 THEN filters.select
    ELSE NoSelect

\* A request on /api/v1/sessions/{backend}[/{id}][?where=..&select=..&count=1].
SReq(method, backend, id, where, select, count) ==
    [method |-> method, backend |-> backend, id |-> id, where |-> where,
     select |-> select, count |-> count]

SearchRequest(filters) ==
    SReq("GET", SearchBackend(filters), Undef, SearchWhere(filters), SearchSelect(filters),
         filters.count)

BackupRequest(backend, refreshTokens, persistent) ==
    SReq("GET", BackupBackend(backend, refreshTokens, persistent), Undef,
         IF refreshTokens THEN Where([_type |-> "refresh_token"]) ELSE NoWhere,
         NoSelect, FALSE)

\* A request that hands the hash flag on to the endpoint.
ItemRequestWithHash(method, options, id) ==
    SReq(method, ResolveBackend(options), id,
         IF options.hash THEN Where([hash |-> "1"]) ELSE NoWhere, NoSelect, FALSE)

ItemRequest(method, options, id) ==
    SReq(method, ResolveBackend(options), id, NoWhere, NoSelect, FALSE)

\* The filters sessionDelete hands to sessionSearch for a where-based deletion.
DeleteSearchFilters(options) ==
    [backend |-> ResolveBackend(options), refreshTokens |-> options.refreshTokens,
     persistent |-> options.persistent, hash |-> FALSE, where |-> options.where,
     select |-> NoSelect, idOnly |-> TRUE, count |-> FALSE]

\* What the endpoint answers to a search: the matching session ids, in the
\* order of the response's keys.
SearchAnswers == { <<>>, <<"s1">>, <<"s1", "s2">>, <<"s2">> }

\* The operation record: what was called (kind, options, ids), the request it
\* awaits (pc, stage), the ids a deletion's search returned (found) and those
\* it has still to delete (todo), and the error.
NoSessOp == [kind |-> Undef, options |-> CHOOSE o \in SessionOptions : TRUE, ids |-> <<>>,
             pc |-> "idle", stage |-> Undef, found |-> <<>>, todo |-> <<>>, err |-> Undef]

SessInit ==
    /\ sessOp = NoSessOp
    /\ sessLog = <<>>

SessPending == sessOp.pc = "await"

\* The transport keeps nothing from one session operation to the next, so a run
\* calls one operation.
SessIdle == sessOp.pc = "idle"

\* sessionGet, sessionSetKey, sessionDelKey: one request on the session.
SessCallItem(kind, options) ==
    /\ SessIdle
    /\ sessOp' = [NoSessOp EXCEPT !.kind = kind, !.options = options, !.ids = <<"s1">>,
                                  !.pc = "await", !.stage = "item"]
    /\ sessLog' = <<ItemRequest(IF kind = "sessionGet" THEN "GET" ELSE "PUT", options, "s1")>>
    /\ UNCHANGED notSess

\* sessionSearch(filters)
SessCallSearch(filters) ==
    /\ SessIdle
    /\ sessOp' = [NoSessOp EXCEPT !.kind = "sessionSearch", !.options = filters,
                                  !.pc = "await", !.stage = "search"]
    /\ sessLog' = <<SearchRequest(filters)>>
    /\ UNCHANGED notSess

\* sessionBackup(backend, refreshTokens, persistent)
SessCallBackup(options) ==
    /\ SessIdle
    /\ options.where = NoWhere /\ ~options.hash
    /\ sessOp' = [NoSessOp EXCEPT !.kind = "sessionBackup", !.options = options,
                                  !.pc = "await", !.stage = "item"]
    /\ sessLog' = <<BackupRequest(options.backend, options.refreshTokens, options.persistent)>>
    /\ UNCHANGED notSess

\* The next DELETE of a deletion, or its end when no id is left.
DeleteNext(op, todo, log) ==
    IF todo = <<>>
    THEN /\ sessOp' = [op EXCEPT !.pc = "done", !.todo = <<>>]
         /\ sessLog' = log
    ELSE /\ sessOp' = [op EXCEPT !.pc = "await", !.stage = "delete", !.todo = Tail(todo)]
         /\ sessLog' = Append(log, ItemRequest("DELETE", op.options, Head(todo)))

\* sessionDelete(ids, options): a search first when a where filter is given,
\* else the first DELETE.
SessCallDelete(ids, options) ==
    /\ SessIdle
    /\ LET op == [NoSessOp EXCEPT !.kind = "sessionDelete", !.options = options, !.ids = ids]
       IN  IF options.where.given
           THEN /\ sessOp' = [op EXCEPT !.pc = "await", !.stage = "search"]
                /\ sessLog' = <<SearchRequest(DeleteSearchFilters(options))>>
           ELSE DeleteNext(op, ids, <<>>)
    /\ UNCHANGED notSess

\* The pending request fails; request() rethrows and the operation ends.
SessRequestFails(err) ==
    /\ SessPending
    /\ sessOp' = [sessOp EXCEPT !.pc = "failed", !.err = err]
    /\ UNCHANGED sessLog
    /\ UNCHANGED notSess

\* The pending request answers 2xx: the operation's code up to its next await.
SessReturns(answer) ==
    /\ SessPending
    /\ IF sessOp.kind = "sessionDelete"
       THEN IF sessOp.stage = "search"
            THEN DeleteNext([sessOp EXCEPT !.found = answer], answer, sessLog)
            ELSE /\ answer = <<>>
                 /\ DeleteNext(sessOp, sessOp.todo, sessLog)
       ELSE /\ sessOp.stage = "search" \/ answer = <<>>
            /\ sessOp' = [sessOp EXCEPT !.pc = "done"]
            /\ UNCHANGED sessLog
    /\ UNCHANGED notSess

SessNext ==
    \/ \E k \in {"sessionGet", "sessionSetKey", "sessionDelKey"}, o \in SessionOptions :
          SessCallItem(k, o)
    \/ \E f \in SearchFilters : SessCallSearch(f)
    \/ \E o \in SessionOptions : SessCallBackup(o)
    \/ \E ids \in IdLists, o \in SessionOptions : SessCallDelete(ids, o)
    \/ \E err \in {ErrHttp, ErrNet} : SessRequestFails(err)
    \/ \E answer \in SearchAnswers : SessReturns(answer)

(***************************************************************************)
(* API transport: deepMerge, applied to a config and a snippet             *)
(***************************************************************************)

MaxMerges == 2

\* One-key and two-key objects.
O1(k, x) == Obj(k :> x)
O2(k, x, j, y) == Obj(k :> x @@ j :> y)

\* The current configs a merge starts from: plain objects holding numbers,
\* strings, null, arrays and nested objects. None has a key of ProtoKeys.
MergeConfigs ==
    { EmptyObj,
      O1("a", Num(1)),
      O1("a", Str("s")),
      O1("a", JNull),
      O1("a", Arr(<<Num(1), Num(2)>>)),
      O2("a", O2("x", Num(1), "y", Num(2)), "b", Str("s")),
      O2("a", O1("x", O2("p", Num(1), "q", Num(2))), "b", Num(1)) }

\* What JSON.parse(json) gives for the snippets: plain objects, with scalar,
\* array and object values, some with keys of ProtoKeys, at the top, nested
\* in an object or nested in an array.
MergeSnippets ==
    { EmptyObj,
      O1("a", Num(5)),
      O1("a", Arr(<<Num(4)>>)),
      O1("a", O1("x", Num(7))),
      O1("a", O1("x", O1("p", Num(9)))),
      O1("b", O1("z", Num(1))),
      O1("c", JNull),
      O2("__proto__", O1("polluted", Num(1)), "c", Num(1)),
      O1("a", O2("constructor", Num(1), "x", Num(3))),
      O1("a", O2("prototype", O1("x", Num(1)), "z", Num(3))),
      O1("c", Arr(<<O1("__proto__", Num(1))>>)) }

MergeInit ==
    /\ mTarget \in MergeConfigs
    /\ mSource = JUndef
    /\ mResult = JUndef
    /\ mCount = 0

\* No deepMerge call was made.
MergeIdle ==
    /\ mTarget = EmptyObj
    /\ mSource = JUndef
    /\ mResult = JUndef
    /\ mCount = 0

\* configMerge's merged = this.deepMerge(currentConfig, snippet). The merged
\* config is what the transport saves, so it is the current config of the
\* next merge.
DeepMergeCall(snippet) ==
    /\ mCount < MaxMerges
    /\ LET currentConfig == IF mCount = 0 THEN mTarget ELSE mResult
       IN  /\ mTarget' = currentConfig
           /\ mSource' = snippet
           /\ mResult' = DeepMerge(currentConfig, snippet)
    /\ mCount' = mCount + 1
    /\ UNCHANGED notMerge

MergeNext == \E snippet \in MergeSnippets : DeepMergeCall(snippet)

(***************************************************************************)
(* Shell and Kubernetes transports: one child process per exec             *)
(***************************************************************************)

\* Execs made one after the other.
MaxExecs == 2

\* Data events per stream of one child process.
MaxChunks == 1

\* The two primitives that spawn a child process: SshTransport.exec and
\* K8sTransport.kubectl.
ExecKinds == {"ssh", "k8s"}

\* What a data event carries, as characters.
StdoutChunks == { <<"o">> }
StderrChunks == { <<"e">> }

\* Exit codes a "close" event reports.
CloseCodes == {0, 1, 2}

\* No code: the outcome is not an exit-code failure.
NoCode == -1

\* The promise's outcome: resolved with the captured stdout, or rejected with
\* an Error whose message is a fixed text, followed by the exit code if any.
Resolved(stdout) == [ok |-> TRUE, out |-> stdout, msg |-> "", code |-> NoCode]
Rejected(msg, code) == [ok |-> FALSE, out |-> <<>>, msg |-> msg, code |-> code]

\* A close handler that never rejects.
CloseRejectsNever(code) == FALSE

\* The close handler's test: `if (code !== 0)`.
CloseRejects(code) == code # 0

\* reject(new Error(`... failed with exit code ${code}`))
ExitFailure(kind, code) == Rejected(IF kind = "ssh" THEN SshErrExit ELSE ErrExit, code)

\* reject(new Error("... execution failed"))
SpawnFailure(kind) == Rejected(IF kind = "ssh" THEN SshErrSpawn ELSE ErrSpawn, NoCode)

\* A stderr handler that keeps what it is given with the captured output.
OnStderrDataKeeps(stdout, data) == stdout \o data

\* proc.stderr.on("data", () => {}): the data is dropped, the captured stdout
\* is as before.
OnStderrData(stdout, data) == stdout

\* proc.stdout.on("data", (data) => { stdout += data.toString() })
OnStdoutData(stdout, data) == stdout \o data

\* The process record: which primitive spawned it, where it stands, what the
\* child has written to its two streams (as data events delivered so far), and
\* the handler's `stdout` variable.
NoProc == [kind |-> Undef, pc |-> "none", wrote |-> <<>>, wroteErr |-> <<>>, stdout |-> <<>>]

ExecInit ==
    /\ xProc = NoProc
    /\ xHist = {}

\* The promise is settled: the exec's outcome joins the history, with what the
\* child did.
Settle(ev, code, outcome) ==
    xHist' = xHist \cup {[kind |-> xProc.kind, wrote |-> xProc.wrote,
                           wroteErr |-> xProc.wroteErr, ev |-> ev, code |-> code,
                           outcome |-> outcome]}

\* exec(args) / kubectl(args): the promise's executor spawns the child and
\* installs the four handlers.
ExecSpawn(kind) ==
    /\ xProc.pc = "none"
    /\ Cardinality(xHist) < MaxExecs
    /\ xProc' = [NoProc EXCEPT !.kind = kind, !.pc = "running"]
    /\ UNCHANGED xHist
    /\ UNCHANGED notExec

\* The child writes to stdout: the "data" handler of proc.stdout.
ExecStdoutData(data) ==
    /\ xProc.pc = "running"
    /\ Len(xProc.wrote) < MaxChunks
    /\ xProc' = [xProc EXCEPT !.wrote = @ \o data, !.stdout = OnStdoutData(@, data)]
    /\ UNCHANGED xHist
    /\ UNCHANGED notExec

\* The child writes to stderr: the "data" handler of proc.stderr.
ExecStderrData(data) ==
    /\ xProc.pc = "running"
    /\ Len(xProc.wroteErr) < MaxChunks
    /\ xProc' = [xProc EXCEPT !.wroteErr = @ \o data, !.stdout = OnStderrData(@, data)]
    /\ UNCHANGED xHist
    /\ UNCHANGED notExec

\* The child exits: the "close" handler rejects or resolves.
ExecClose(code) ==
    /\ xProc.pc = "running"
    /\ Settle("close", code,
              IF CloseRejects(code) THEN ExitFailure(xProc.kind, code)
              ELSE Resolved(xProc.stdout))
    /\ xProc' = NoProc
    /\ UNCHANGED notExec

\* The child could not be started: the "error" handler rejects.
ExecError ==
    /\ xProc.pc = "running"
    /\ Settle("error", NoCode, SpawnFailure(xProc.kind))
    /\ xProc' = [xProc EXCEPT !.pc = "errored"]
    /\ UNCHANGED notExec

\* The "close" event that follows an "error": the handler's reject or resolve
\* has no effect on the promise already rejected.
ExecCloseAfterError(code) ==
    /\ xProc.pc = "errored"
    /\ xProc' = NoProc
    /\ UNCHANGED xHist
    /\ UNCHANGED notExec

ExecNext ==
    \/ \E kind \in ExecKinds : ExecSpawn(kind)
    \/ \E data \in StdoutChunks : ExecStdoutData(data)
    \/ \E data \in StderrChunks : ExecStderrData(data)
    \/ \E code \in CloseCodes : ExecClose(code)
    \/ ExecError
    \/ \E code \in CloseCodes : ExecCloseAfterError(code)

(***************************************************************************)
(* API transport: one request() call                                       *)
(***************************************************************************)

\* HTTP statuses the endpoint answers with, and their texts.
HttpStatuses == {200, 204, 404, 500}
StatusStr(status) ==
    CASE status = 200 -> "200" [] status = 204 -> "204" [] status = 404 -> "404"
      [] OTHER -> "500"
StatusText(status) ==
    CASE status = 200 -> "OK" [] status = 204 -> "No Content" [] status = 404 -> "Not Found"
      [] OTHER -> "Internal Server Error"

\* A response that is always taken as a success.
ResponseOkAlways(status) == TRUE

\* response.ok
ResponseOk(status) == status \in 200..299

\* The response's content-type header: none, JSON, or another type.
ContentTypes == {Undef, "application/json", "text/plain"}

\* The response's body text: empty, the JSON text of a value, or text that is
\* not JSON. `raw` stands for the characters of the text.
EmptyText == [kind |-> "empty", json |-> JUndef, raw |-> ""]
JsonText(x, raw) == [kind |-> "json", json |-> x, raw |-> raw]
PlainText(raw) == [kind |-> "plain", json |-> JUndef, raw |-> raw]
ResponseTexts ==
    { EmptyText,
      JsonText(Obj("error" :> Str("Not found")), "{\"error\":\"Not found\"}"),
      PlainText("oops") }

\* The messages of the errors fetch rejects with.
FetchCauses == {"fetch failed", "The operation was aborted"}

\* Error messages are sequences of their parts.
ApiPrefix == "API request failed: "

\* An error rethrown as it is.
Unwrapped(message) == message

\* new Error(`API request failed: ${error.message}`)
Wrapped(message) == <<ApiPrefix>> \o message

\* new Error(`HTTP ${response.status} ${response.statusText}`)
HttpError(status) == <<"HTTP ", StatusStr(status), " ", StatusText(status)>>

\* The message of the SyntaxError of response.json() and JSON.parse.
SyntaxError == <<"Unexpected token">>

\* `if (body && method !== "GET")`: the body is serialized into the request.
BodySent(method, body) == Truthy(body) /\ method # "GET"

\* What request() returns or throws.
Returned(x) == [ok |-> TRUE, val |-> x, msg |-> <<>>]
Thrown(message) == [ok |-> FALSE, val |-> JUndef, msg |-> message]

\* The body of a 2xx response, as request() returns it.
ReadBody(ctype, text) ==
    IF ctype = "application/json"
    THEN IF text.kind = "json" THEN Returned(text.json) ELSE Thrown(Wrapped(SyntaxError))
    ELSE IF text.kind = "empty" THEN Returned(EmptyObj)
    ELSE IF text.kind = "json" THEN Returned(text.json)
    ELSE Returned(Str(text.raw))

NoResponse == [status |-> 0, ctype |-> Undef, text |-> EmptyText]

NoRq == [pc |-> "idle", method |-> Undef, body |-> JUndef, sent |-> FALSE,
         ev |-> Undef, resp |-> NoResponse, cause |-> "", outcome |-> Thrown(<<>>)]

RqInit == rq = NoRq

\* request(method, path, body) up to `await fetch(url, options)`.
Request(method, body) ==
    /\ rq.pc = "idle"
    /\ rq' = [NoRq EXCEPT !.pc = "fetch", !.method = method, !.body = body,
                          !.sent = BodySent(method, body)]
    /\ UNCHANGED notRq

\* fetch resolves with a response: the rest of the try block.
FetchResolves(status, ctype, text) ==
    /\ rq.pc = "fetch"
    /\ rq' = [rq EXCEPT !.pc = "settled", !.ev = "response",
                        !.resp = [status |-> status, ctype |-> ctype, text |-> text],
                        !.outcome = IF ResponseOk(status) THEN ReadBody(ctype, text)
                                    ELSE Thrown(Wrapped(HttpError(status)))]
    /\ UNCHANGED notRq

\* fetch rejects (no connection, TLS failure, abort): the catch block.
FetchRejects(cause) ==
    /\ rq.pc = "fetch"
    /\ rq' = [rq EXCEPT !.pc = "settled", !.ev = "reject", !.cause = cause,
                        !.outcome = Thrown(Wrapped(<<cause>>))]
    /\ UNCHANGED notRq

RqNext ==
    \/ \E method \in {"GET", "PUT", "DELETE"}, body \in {JUndef, EmptyObj, JNull} :
          Request(method, body)
    \/ \E status \in HttpStatuses, ctype \in ContentTypes, text \in ResponseTexts :
          FetchResolves(status, ctype, text)
    \/ \E cause \in FetchCauses : FetchRejects(cause)

(***************************************************************************)
(* Shell transport: the command line exec composes, and shellQuote         *)
(***************************************************************************)

\* Strings are sequences of characters. Longest argument given to shellQuote.
MaxLen == 3

Quote == "'"
Backslash == "\\"
DoubleQuote == "\""
Space == " "
Alphabet == {"a", Space, Quote, Backslash, DoubleQuote}

RECURSIVE StringsOf(_)
StringsOf(n) ==
    IF n = 0 THEN {<<>>}
    ELSE LET shorter == StringsOf(n - 1)
         IN  shorter \cup {Append(x, c) : x \in {y \in shorter : Len(y) = n - 1}, c \in Alphabet}

Strings == StringsOf(MaxLen)

\* tokens.join(sep)
RECURSIVE Join(_, _)
Join(tokens, sep) ==
    IF tokens = <<>> THEN <<>>
    ELSE IF Len(tokens) = 1 THEN tokens[1]
    ELSE tokens[1] \o sep \o Join(Tail(tokens), sep)

\* str.split(" "): a cut at every space, so two spaces in a row, or one at an
\* end, give an empty part.
RECURSIVE SplitFrom(_, _, _)
SplitFrom(str, i, cur) ==
    IF i > Len(str) THEN <<cur>>
    ELSE IF str[i] = Space THEN <<cur>> \o SplitFrom(str, i + 1, <<>>)
    ELSE SplitFrom(str, i + 1, Append(cur, str[i]))

Split(str) == SplitFrom(str, 1, <<>>)

\* arg.replace(/'/g, "'\\''"): every single quote becomes the four characters
\* quote, backslash, quote, quote.
RECURSIVE EscapeQuotes(_)
EscapeQuotes(arg) ==
    IF arg = <<>> THEN <<>>
    ELSE (IF Head(arg) = Quote THEN <<Quote, Backslash, Quote, Quote>> ELSE <<Head(arg)>>)
         \o EscapeQuotes(Tail(arg))

\* Quoting that leaves the argument's single quotes as they are.
ShellQuoteUnescaped(arg) == <<Quote>> \o arg \o <<Quote>>

\* shellQuote(arg)
ShellQuote(arg) == <<Quote>> \o EscapeQuotes(arg) \o <<Quote>>

\* [a, b, ...].map(shellQuote)
QuoteAll(tokens) == [i \in 1..Len(tokens) |-> ShellQuote(tokens[i])]

\* The words a POSIX shell reads from a command line (sh -c line): outside
\* quotes a space ends a word and a backslash keeps the next character; inside
\* single quotes every character is kept up to the closing quote; inside double
\* quotes a backslash keeps a following double quote or backslash. A word is
\* `open` once a character or a quote belongs to it, so '' is an empty word.
RECURSIVE Words(_, _, _, _, _, _)
Words(line, i, mode, cur, open, done) ==
    IF i > Len(line) THEN (IF open THEN Append(done, cur) ELSE done)
    ELSE LET c == line[i]
             more == i < Len(line)
         IN  CASE mode = "single" ->
                    IF c = Quote THEN Words(line, i + 1, "plain", cur, TRUE, done)
                    ELSE Words(line, i + 1, "single", Append(cur, c), TRUE, done)
               [] mode = "double" ->
                    IF c = DoubleQuote THEN Words(line, i + 1, "plain", cur, TRUE, done)
                    ELSE IF c = Backslash /\ more /\ line[i + 1] \in {DoubleQuote, Backslash}
                    THEN Words(line, i + 2, "double", Append(cur, line[i + 1]), TRUE, done)
                    ELSE Words(line, i + 1, "double", Append(cur, c), TRUE, done)
               [] OTHER ->
                    IF c = Quote THEN Words(line, i + 1, "single", cur, TRUE, done)
                    ELSE IF c = DoubleQuote THEN Words(line, i + 1, "double", cur, TRUE, done)
                    ELSE IF c = Backslash /\ more
                    THEN Words(line, i + 2, "plain", Append(cur, line[i + 1]), TRUE, done)
                    ELSE IF c = Space
                    THEN Words(line, i + 1, "plain", <<>>, FALSE,
                               IF open THEN Append(done, cur) ELSE done)
                    ELSE Words(line, i + 1, "plain", Append(cur, c), TRUE, done)

ShellWords(line) == Words(line, 1, "plain", <<>>, FALSE, <<>>)

\* The words of the command lines.
SshWord == <<"s", "s", "h">>
SudoWord == <<"s", "u", "d", "o">>
DashU == <<"-", "u">>
DashP == <<"-", "p">>
At == <<"@">>
Sp == <<Space>>

\* port.toString(), for the ports of the configurations below.
PortString(port) == IF port = 22 THEN <<"2", "2">> ELSE <<"0">>

\* SshConfig: host, port, user, sudo and remoteCommand. The code tests each
\* for truthiness, so an absent field and an empty one (port 0) are one case.
NoString == <<>>
Hosts == {NoString, <<"h">>}
Ports == {0, 22}
Users == {NoString, <<"r">>}
SudoUsers == {NoString, <<"w">>, <<"o", Quote, "b">>}
RemoteCommands == {NoString, <<"d">>, <<"d", Space, "e", Space, "c">>}
SshConfigs ==
    [host : Hosts, port : Ports, user : Users, sudo : SudoUsers,
     remoteCommand : RemoteCommands]

\* The args of exec: the binary's path, then the operation's arguments.
BinaryPath == <<"/", "c">>
ExecArgs ==
    { <<BinaryPath>>, <<BinaryPath, <<"i">>>>, <<BinaryPath, <<"a", Space, "b">>>>,
      <<BinaryPath, <<"i", "t", Quote, "s">>, NoString>>, <<BinaryPath, NoString, <<"k">>>> }

\* `user@host`, or the host alone.
HostSpec(config) ==
    IF config.user # NoString THEN config.user \o At \o config.host ELSE config.host

\* The wrapper put behind the command.
WithRemoteCommandAfter(remoteCommand, remoteCmd) == remoteCmd \o Sp \o remoteCommand

\* `${this.config.remoteCommand} ${remoteCmd}`
WithRemoteCommand(remoteCommand, remoteCmd) == remoteCommand \o Sp \o remoteCmd

\* `sudo -u ${this.shellQuote(this.config.sudo)} ${remoteCmd}`
WithSudo(sudo, remoteCmd) ==
    SudoWord \o Sp \o DashU \o Sp \o ShellQuote(sudo) \o Sp \o remoteCmd

\* exec's SSH mode: the command line handed to ssh as its last argument. No
\* operation passes `env` to exec (execConfigEditor, the one function that
\* does, has no caller), so the `env` prefix is left out.
RemoteCmd(config, args) ==
    LET quotedArgs == Join(QuoteAll(args), Sp)
        wrapped == IF config.remoteCommand # NoString
                   THEN WithRemoteCommand(config.remoteCommand, quotedArgs)
                   ELSE quotedArgs
    IN  IF config.sudo # NoString THEN WithSudo(config.sudo, wrapped) ELSE wrapped

\* What exec hands to spawn: cmd and cmdArgs.
Spawned(cmd, cmdArgs) == [cmd |-> cmd, cmdArgs |-> cmdArgs]

ComposeSsh(config, args) ==
    Spawned(SshWord,
            (IF config.port # 0 THEN <<DashP, PortString(config.port)>> ELSE <<>>)
            \o <<HostSpec(config), RemoteCmd(config, args)>>)

ComposeLocal(config, args) ==
    IF config.sudo # NoString
    THEN Spawned(SudoWord,
                 <<DashU, config.sudo>>
                 \o (IF config.remoteCommand # NoString THEN Split(config.remoteCommand)
                     ELSE <<>>)
                 \o args)
    ELSE IF config.remoteCommand # NoString
    THEN LET parts == Split(config.remoteCommand)
         IN  Spawned(parts[1], Tail(parts) \o args)
    ELSE Spawned(args[1], Tail(args))

Compose(config, args) ==
    IF config.host # NoString THEN ComposeSsh(config, args) ELSE ComposeLocal(config, args)

NoSpawn == Spawned(NoString, <<>>)

ComposeIdle ==
    /\ spawned = [config |-> CHOOSE c \in SshConfigs : TRUE, args |-> <<BinaryPath>>,
                  called |-> FALSE, proc |-> NoSpawn]
    /\ quoted = [arg |-> NoString, called |-> FALSE, out |-> NoString]

\* A transport of any configuration, about to run a command.
ComposeInit ==
    /\ spawned \in [config : SshConfigs, args : ExecArgs, called : {FALSE}, proc : {NoSpawn}]
    /\ quoted = [arg |-> NoString, called |-> FALSE, out |-> NoString]

\* exec(args), up to spawn(cmd, cmdArgs).
ExecCompose ==
    /\ ~spawned.called
    /\ spawned' = [spawned EXCEPT !.called = TRUE,
                                  !.proc = Compose(spawned.config, spawned.args)]
    /\ UNCHANGED quoted
    /\ UNCHANGED notCompose

\* An argument about to be quoted.
QuoteInit ==
    /\ spawned = [config |-> CHOOSE c \in SshConfigs : TRUE, args |-> <<BinaryPath>>,
                  called |-> FALSE, proc |-> NoSpawn]
    /\ quoted \in [arg : Strings, called : {FALSE}, out : {NoString}]

\* shellQuote(arg)
ShellQuoteCall ==
    /\ ~quoted.called
    /\ quoted' = [quoted EXCEPT !.called = TRUE, !.out = ShellQuote(quoted.arg)]
    /\ UNCHANGED spawned
    /\ UNCHANGED notCompose

(***************************************************************************)
(* API transport: what sessionSearch returns for its request's result      *)
(***************************************************************************)

\* The attributes the endpoint may list for a session.
SessionAttrs ==
    { EmptyObj, Obj([uid |-> Str("u")]),
      Obj([uid |-> Str("u"), _session_id |-> Str("s1")]), Obj([id |-> Str("x")]) }

\* What request() may return to sessionSearch: an object keyed by session id,
\* an array, the text of a body that is not JSON, or null.
KeyedResults == UNION { { Obj(f) : f \in [K -> SessionAttrs] } : K \in SUBSET SessionIds }
SearchResults ==
    KeyedResults \cup {Arr(<<>>), Arr(<<Obj([uid |-> Str("u")])>>), Str("oops"), JNull}

\* The orders in which the keys K of an object can stand in the response.
Orders(K) ==
    { q \in [1..Cardinality(K) -> K] : \A i, j \in 1..Cardinality(K) : q[i] = q[j] => i = j }

\* An element that drops the id.
SearchEntryDataOnly(id, data) == data

\* ({ id, ...(data as object) })
SearchEntry(id, data) == SpreadBoth(Obj([id |-> Str(id)]), data)

\* `typeof result === "object" && !Array.isArray(result)`
IsKeyed(result) == result.t \in {"obj", "null"}

\* Object.keys(result) or Object.entries(result).map(...), the keys standing
\* in the given order.
Normalized(result, order, idOnly) ==
    IF idOnly THEN Arr([i \in 1..Len(order) |-> Str(order[i])])
    ELSE Arr([i \in 1..Len(order) |-> SearchEntry(order[i], result.v[order[i]])])

\* Object.keys(null) and Object.entries(null) throw.
ErrNullKeys == <<"TypeError: Cannot convert undefined or null to object">>

NoSearch == [result |-> EmptyObj, idOnly |-> FALSE, called |-> FALSE, out |-> Thrown(<<>>)]

SearchIdle == searched = NoSearch

\* A sessionSearch whose request has returned.
SearchInit ==
    searched \in [result : SearchResults, idOnly : BOOLEAN, called : {FALSE},
                  out : {Thrown(<<>>)}]

\* sessionSearch after `await this.request(...)`.
SessionSearchReturns ==
    /\ ~searched.called
    /\ LET result == searched.result
       IN  IF IsKeyed(result)
           THEN IF result = JNull
                THEN searched' = [searched EXCEPT !.called = TRUE, !.out = Thrown(ErrNullKeys)]
                ELSE \E order \in Orders(DOMAIN result.v) :
                        searched' = [searched EXCEPT
                                        !.called = TRUE,
                                        !.out = Returned(Normalized(result, order,
                                                                    searched.idOnly))]
           ELSE searched' = [searched EXCEPT !.called = TRUE, !.out = Returned(result)]
    /\ UNCHANGED notSearch

(***************************************************************************)
(* Shell transport: sessionSearch, from its filter to the arguments of the *)
(* sessions binary and from the binary's stdout to what it returns.        *)
(* An argument is the sequence of the pieces its string is made of.        *)
(***************************************************************************)
MaxWhere == 2

\* Object.entries(filters.where): the fields of the object in insertion order.
WhereEntries == {<<"uid", "john">>, <<"ipAddr", "192.168.1.1">>}
WhereLists ==
    { w \in UNION { [1..n -> WhereEntries] : n \in 0..MaxWhere } :
        \A i, j \in DOMAIN w : i # j => w[i][1] # w[j][1] }
SelectLists == {<<>>, <<"uid">>, <<"uid", "ipAddr">>}
BackendNames == {"", "persistent"}

\* A SessionFilter; an optional field that is absent has given = FALSE, and
\* an absent flag behaves as false.
ShFilters ==
    [where : [given : {FALSE}, entries : {<<>>}] \cup [given : {TRUE}, entries : WhereLists],
     select : [given : {FALSE}, fields : {<<>>}] \cup [given : {TRUE}, fields : SelectLists],
     backend : [given : {FALSE}, name : {""}] \cup [given : {TRUE}, name : BackendNames],
     count : BOOLEAN, refreshTokens : BOOLEAN, persistent : BOOLEAN,
     hash : BOOLEAN, idOnly : BOOLEAN]

\* Array.prototype.join over strings, as pieces.
RECURSIVE JoinPieces(_, _)
JoinPieces(list, sep) ==
    IF Len(list) = 0 THEN <<>>
    ELSE IF Len(list) = 1 THEN <<list[1]>>
    ELSE <<list[1], sep>> \o JoinPieces(Tail(list), sep)

\* for (const [field, value] of Object.entries(filters.where)) args.push(...)
RECURSIVE WherePairs(_)
WherePairs(entries) ==
    IF Len(entries) = 0 THEN <<>>
    ELSE <<<<"--where">>, <<entries[1][1], "=", entries[1][2]>>>> \o WherePairs(Tail(entries))

FlagAlways(set, name) == <<<<name>>>>
Flag(set, name) == IF set THEN <<<<name>>>> ELSE <<>>

SearchArgs(filters) ==
    <<<<"search">>>>
    \o (IF filters.where.given THEN WherePairs(filters.where.entries) ELSE <<>>)
    \o (IF filters.select.given /\ Len(filters.select.fields) > 0
        THEN <<<<"--select">>, JoinPieces(filters.select.fields, ",")>> ELSE <<>>)
    \o (IF filters.backend.given /\ filters.backend.name # ""
        THEN <<<<"--backend">>, <<filters.backend.name>>>> ELSE <<>>)
    \o Flag(filters.count, "--count")
    \o Flag(filters.refreshTokens, "--refresh-tokens")
    \o Flag(filters.persistent, "--persistent")
    \o Flag(filters.hash, "--hash")
    \o Flag(filters.idOnly, "--id-only")

\* What the sessions binary may write to stdout.
SearchStdouts ==
    { JsonText(Arr(<<Obj("id" :> Str("session1"))>>), "[{\"id\": \"session1\"}]"),
      JsonText(Arr(<<>>), "[]"),
      JsonText(Num(3), "3"),
      EmptyText,
      PlainText("oops") }

\* JSON.parse(output)
JsonParse(text) ==
    IF text.kind = "json" THEN Returned(text.json) ELSE Thrown(SyntaxError)

SessionsBinary == "lemonldap-ng-sessions"

NoShSearch(filters) ==
    [pc |-> "idle", filters |-> filters, binary |-> Undef, args |-> <<>>,
     execs |-> 0, stdout |-> EmptyText, out |-> Returned(JUndef)]

ShSearchIdle == shSearch = NoShSearch(CHOOSE f \in ShFilters : TRUE)
ShSearchInit == \E f \in ShFilters : shSearch = NoShSearch(f)

\* sessionSearch(filters) up to the spawn of execSessions(args).
ShSessionSearch ==
    /\ shSearch.pc = "idle"
    /\ shSearch' = [shSearch EXCEPT !.pc = "exec", !.binary = SessionsBinary,
                                    !.args = SearchArgs(shSearch.filters),
                                    !.execs = @ + 1]
    /\ UNCHANGED notShSearch

\* The child exits: exec rejects on a non-zero code and resolves with the
\* captured stdout otherwise, which sessionSearch parses and returns.
ShSearchClose(code, text) ==
    /\ shSearch.pc = "exec"
    /\ shSearch' = [shSearch EXCEPT
                      !.pc = "done", !.stdout = text,
                      !.out = IF ExitFailed(code) THEN Thrown(<<SshErrExit, ToString(code)>>)
                              ELSE JsonParse(text)]
    /\ UNCHANGED notShSearch

\* The child could not be started.
ShSearchError ==
    /\ shSearch.pc = "exec"
    /\ shSearch' = [shSearch EXCEPT !.pc = "done", !.out = Thrown(<<SshErrSpawn>>)]
    /\ UNCHANGED notShSearch

ShSearchNext ==
    \/ ShSessionSearch
    \/ \E code \in ExitCodes, text \in SearchStdouts : ShSearchClose(code, text)
    \/ ShSearchError

(***************************************************************************)
(* Tool handlers: the try/catch around the registry and transport calls.   *)
(***************************************************************************)
\* The tools whose handler asks the registry for a transport and awaits one
\* or more of its operations inside a try block.
TransportTools ==
    {"llng_download_saml_metadata", "llng_import_metadata", "llng_delete_session",
     "llng_user_attributes", "llng_purge_central_cache", "llng_purge_local_cache",
     "llng_rotate_oidc_keys",
     "llng_config_info", "llng_config_get", "llng_config_set", "llng_config_addKey",
     "llng_config_delKey", "llng_config_export", "llng_config_import", "llng_config_merge",
     "llng_config_rollback", "llng_config_update_cache", "llng_config_test_email",
     "llng_consent_list", "llng_consent_delete",
     "llng_oidc_rp_list", "llng_oidc_rp_get", "llng_oidc_rp_add", "llng_oidc_rp_delete",
     "llng_session_get", "llng_session_search", "llng_session_delete",
     "llng_session_setKey", "llng_session_delKey", "llng_session_backup"}

\* The tools whose handler asks the registry for the OIDC configuration
\* inside a try block.
OidcTools ==
    {"llng_oidc_metadata", "llng_oidc_authorize", "llng_oidc_tokens", "llng_oidc_userinfo",
     "llng_oidc_introspect", "llng_oidc_refresh", "llng_oidc_whoami", "llng_oidc_check_auth"}

\* llng_instances calls registry.listInstances() outside any try block.
InstanceTools == {"llng_instances"}

Tools == TransportTools \cup OidcTools \cup InstanceTools

RegistryCall(name) ==
    IF name \in TransportTools THEN "getTransport"
    ELSE IF name \in OidcTools THEN "getOidcConfig"
    ELSE "listInstances"

Guarded(name) == name \notin InstanceTools

\* What a call may throw or reject with: an Error and values that are not.
ThrownValues ==
    { [t |-> "error", v |-> "Unknown LLNG instance"],
      [t |-> "error", v |-> "Command failed with exit code 1"],
      [t |-> "str", v |-> "Something went wrong"],
      [t |-> "obj", v |-> ""],
      [t |-> "undef", v |-> ""] }
NoValue == [t |-> "none", v |-> ""]

\* What a registry call may throw. listInstances maps over the entries of
\* configs and has no throwing path.
RegistryThrows(call) == IF call = "listInstances" THEN {} ELSE ThrownValues

\* String(e)
StringOf(e) ==
    IF e.t \in {"str", "error"} THEN (IF e.t = "str" THEN e.v ELSE "Error: " \o e.v)
    ELSE IF e.t = "obj" THEN "[object Object]"
    ELSE "undefined"

\* e.message
MessageProperty(e) == IF e.t = "error" THEN e.v ELSE "undefined"

\* e instanceof Error ? e.message : String(e)
MessageOf(e) == IF e.t = "error" THEN e.v ELSE StringOf(e)

ErrorResult(e) == [isError |-> TRUE, text |-> <<"Error: ", MessageOf(e)>>]
SuccessResult == [isError |-> FALSE, text |-> <<"ok">>]
NoResult == [isError |-> FALSE, text |-> <<>>]

NoTool ==
    [pc |-> "idle", name |-> Undef, thrown |-> NoValue, by |-> Undef,
     result |-> NoResult, escaped |-> NoValue]

ToolIdle == tool = NoTool
ToolInit == tool = NoTool

\* catch (e) { return { content: [...], isError: true } }, or no catch.
Caught(t, e, by) ==
    IF Guarded(t.name)
    THEN [t EXCEPT !.pc = "returned", !.thrown = e, !.by = by, !.result = ErrorResult(e)]
    ELSE [t EXCEPT !.pc = "escaped", !.thrown = e, !.by = by, !.escaped = e]

\* The handler is called and its registry call returns: a transport handler
\* goes on to await the transport, the others to their result.
ToolCallProceeds(name) ==
    /\ tool.pc = "idle"
    /\ tool' = [tool EXCEPT !.name = name,
                            !.pc = IF name \in TransportTools THEN "await" ELSE "returned",
                            !.result = IF name \in TransportTools THEN NoResult ELSE SuccessResult]
    /\ UNCHANGED notTool

\* The handler is called and its registry call throws.
ToolCallRegistryThrows(name, e) ==
    /\ tool.pc = "idle"
    /\ e \in RegistryThrows(RegistryCall(name))
    /\ tool' = Caught([tool EXCEPT !.name = name], e, "registry")
    /\ UNCHANGED notTool

\* The awaited transport operation resolves.
TransportResolves ==
    /\ tool.pc = "await"
    /\ tool' = [tool EXCEPT !.pc = "returned", !.result = SuccessResult]
    /\ UNCHANGED notTool

\* The awaited transport operation rejects.
TransportRejects(e) ==
    /\ tool.pc = "await"
    /\ tool' = Caught(tool, e, "transport")
    /\ UNCHANGED notTool

ToolNext ==
    \/ \E name \in Tools : ToolCallProceeds(name)
    \/ \E name \in Tools, e \in ThrownValues : ToolCallRegistryThrows(name, e)
    \/ TransportResolves
    \/ \E e \in ThrownValues : TransportRejects(e)

(***************************************************************************)
(* Shell and Kubernetes transports: an exec call, its child process and    *)
(* the event loop that dispatches the child's events to the handlers       *)
(***************************************************************************)

\* Calls made one after the other.
MaxCalls == 2

\* An event of the child: its name and, for "close", the exit code.
Event(name, code) == [name |-> name, code |-> code]

\* A promise that takes every resolve and reject.
SettledAgain(promise, outcome) ==
    [state |-> "settled", outcome |-> outcome, settles |-> promise.settles + 1]

\* resolve(x) / reject(e): the first call settles the promise, a later call has
\* no effect.
Settled(promise, outcome) ==
    IF promise.state = "pending"
    THEN [state |-> "settled", outcome |-> outcome, settles |-> promise.settles + 1]
    ELSE promise

\* The handler exec and kubectl install for an event: what it passes to
\* resolve or reject.
HandlerOutcome(kind, ev, stdout) ==
    IF ev.name = "error" THEN SpawnFailure(kind)
    ELSE IF CloseRejects(ev.code) THEN ExitFailure(kind, ev.code)
    ELSE Resolved(stdout)

NoPromise == [state |-> "none", outcome |-> Resolved(<<>>), settles |-> 0]

NoXCall ==
    [kind |-> Undef, calls |-> 0, promise |-> NoPromise, child |-> "none",
     queue |-> <<>>, stdout |-> <<>>, wroteErr |-> <<>>]

XCallIdle == xCall = NoXCall
XCallInit == xCall = NoXCall

\* exec(args) / kubectl(args): new Promise(...), whose executor spawns the
\* child and installs the handlers. The caller awaits the call before it makes
\* another.
XCallSpawn(kind) ==
    /\ xCall.promise.state # "pending" /\ xCall.queue = <<>>
    /\ xCall.calls < MaxCalls
    /\ xCall' = [NoXCall EXCEPT !.kind = kind, !.calls = xCall.calls + 1,
                                !.promise = [NoPromise EXCEPT !.state = "pending"],
                                !.child = "running"]
    /\ UNCHANGED notXCall

\* The child writes to stdout and the "data" handler appends it.
XCallStdoutData(data) ==
    /\ xCall.child = "running"
    /\ Len(xCall.stdout) < MaxChunks
    /\ xCall' = [xCall EXCEPT !.stdout = OnStdoutData(@, data)]
    /\ UNCHANGED notXCall

\* The child writes to stderr and the "data" handler drops it.
XCallStderrData(data) ==
    /\ xCall.child = "running"
    /\ Len(xCall.wroteErr) < MaxChunks
    /\ xCall' = [xCall EXCEPT !.wroteErr = @ \o data, !.stdout = OnStderrData(@, data)]
    /\ UNCHANGED notXCall

\* The child exits with a code: its "close" event awaits dispatch.
XCallChildExits(code) ==
    /\ xCall.child = "running"
    /\ xCall' = [xCall EXCEPT !.child = "exited", !.queue = Append(@, Event("close", code))]
    /\ UNCHANGED notXCall

\* The child cannot be started: its "error" event awaits dispatch, and a
\* "close" event after it.
XCallChildFailsToStart(code) ==
    /\ xCall.child = "running" /\ xCall.stdout = <<>> /\ xCall.wroteErr = <<>>
    /\ xCall' = [xCall EXCEPT !.child = "failed",
                              !.queue = @ \o <<Event("error", NoCode), Event("close", code)>>]
    /\ UNCHANGED notXCall

\* The event loop dispatches the oldest event to its handler, which calls
\* resolve or reject.
XCallDispatch ==
    /\ xCall.queue # <<>>
    /\ xCall' = [xCall EXCEPT
                   !.queue = Tail(@),
                   !.promise = Settled(@, HandlerOutcome(xCall.kind, Head(xCall.queue),
                                                         xCall.stdout))]
    /\ UNCHANGED notXCall

XCallNext ==
    \/ \E kind \in ExecKinds : XCallSpawn(kind)
    \/ \E data \in StdoutChunks : XCallStdoutData(data)
    \/ \E data \in StderrChunks : XCallStderrData(data)
    \/ \E code \in CloseCodes : XCallChildExits(code)
    \/ \E code \in CloseCodes \ {0} : XCallChildFailsToStart(code)
    \/ XCallDispatch

RegIdle ==
    /\ configs = [n \in Instances |-> CHOOSE c \in PlainConfigs : TRUE]
    /\ transports = [n \in Names |-> NoEntry]
    /\ nextId = 1
    /\ lastCall = NoCall
    /\ firstOk = [k \in Names \X Roles |-> NoT]
    /\ built = <<>>
    /\ mgrReqs = [n \in Names |-> FALSE]
    /\ ctorIo = <<>>

InitRegistry == RegInit /\ K8sIdle /\ ApiIdle /\ SessInit /\ MergeIdle /\ ExecInit /\ SshInit /\ RqInit /\ ComposeIdle /\ SearchIdle /\ ShSearchIdle /\ ToolIdle /\ XCallIdle

SpecRegistry == InitRegistry /\ [][RegNext]_vars

InitK8s == K8sInit /\ RegIdle /\ ApiIdle /\ SessInit /\ MergeIdle /\ ExecInit /\ SshInit /\ RqInit /\ ComposeIdle /\ SearchIdle /\ ShSearchIdle /\ ToolIdle /\ XCallIdle

SpecK8s == InitK8s /\ [][K8sNext]_vars

InitApi == ApiInit /\ RegIdle /\ K8sIdle /\ SessInit /\ MergeIdle /\ ExecInit /\ SshInit /\ RqInit /\ ComposeIdle /\ SearchIdle /\ ShSearchIdle /\ ToolIdle /\ XCallIdle

SpecApi == InitApi /\ [][ApiNext]_vars

InitSessions == SessInit /\ RegIdle /\ K8sIdle /\ ApiIdle /\ MergeIdle /\ ExecInit /\ SshInit /\ RqInit /\ ComposeIdle /\ SearchIdle /\ ShSearchIdle /\ ToolIdle /\ XCallIdle

SpecSessions == InitSessions /\ [][SessNext]_vars

InitMerge == MergeInit /\ RegIdle /\ K8sIdle /\ ApiIdle /\ SessInit /\ ExecInit /\ SshInit /\ RqInit /\ ComposeIdle /\ SearchIdle /\ ShSearchIdle /\ ToolIdle /\ XCallIdle

SpecMerge == InitMerge /\ [][MergeNext]_vars

InitExec == ExecInit /\ RegIdle /\ K8sIdle /\ ApiIdle /\ SessInit /\ MergeIdle /\ SshInit /\ RqInit /\ ComposeIdle /\ SearchIdle /\ ShSearchIdle /\ ToolIdle /\ XCallIdle

SpecExec == InitExec /\ [][ExecNext]_vars

\* One operation on a shell transport and one on a Kubernetes transport.
InitCli ==
    SshInit /\ K8sInit /\ RegIdle /\ ApiIdle /\ SessInit /\ MergeIdle /\ ExecInit /\ RqInit /\ ComposeIdle /\ SearchIdle /\ ShSearchIdle /\ ToolIdle /\ XCallIdle

CliNext == SshNext \/ K8sSteps({1})

SpecCli == InitCli /\ [][CliNext]_vars

\* One request() call of the API transport.
InitRequest ==
    RqInit /\ RegIdle /\ K8sIdle /\ ApiIdle /\ SessInit /\ MergeIdle /\ ExecInit /\ SshInit /\ ComposeIdle /\ SearchIdle /\ ShSearchIdle /\ ToolIdle /\ XCallIdle

SpecRequest == InitRequest /\ [][RqNext]_vars

\* The operations of all three transports. The transports share no state and an
\* operation runs on one of them: a run follows the operations of one family,
\* the shell and Kubernetes operations, the API session operations, the API
\* config operations, or one request().
CliAtRest == sshOp = NoSshOp /\ kops = [o \in Ops |-> NoOp]
SessAtRest == sessOp = NoSessOp
ApiAtRest == apiOps = 0
RqAtRest == rq = NoRq

InitCore ==
    /\ SshInit /\ K8sIdle /\ SessInit /\ RqInit /\ RegIdle /\ MergeIdle /\ ExecInit
    /\ ApiInit /\ remote = <<Snap0(1), Snap1(2)>> /\ ComposeIdle /\ SearchIdle /\ ShSearchIdle /\ ToolIdle /\ XCallIdle

CoreNext ==
    \/ SessAtRest /\ ApiAtRest /\ RqAtRest /\ CliNext
    \/ CliAtRest /\ ApiAtRest /\ RqAtRest /\ SessNext
    \/ CliAtRest /\ SessAtRest /\ RqAtRest /\ ApiNext
    \/ CliAtRest /\ SessAtRest /\ ApiAtRest /\ RqNext

SpecCore == InitCore /\ [][CoreNext]_vars

\* One exec of a shell transport, for every configuration.
InitCompose ==
    /\ ComposeInit /\ RegIdle /\ K8sIdle /\ ApiIdle /\ SessInit /\ MergeIdle /\ ExecInit
    /\ SshInit /\ RqInit /\ SearchIdle /\ ShSearchIdle /\ ToolIdle /\ XCallIdle

SpecCompose == InitCompose /\ [][ExecCompose]_vars

\* One shellQuote call, for every argument.
InitQuote ==
    /\ QuoteInit /\ RegIdle /\ K8sIdle /\ ApiIdle /\ SessInit /\ MergeIdle /\ ExecInit
    /\ SshInit /\ RqInit /\ SearchIdle /\ ShSearchIdle /\ ToolIdle /\ XCallIdle

SpecQuote == InitQuote /\ [][ShellQuoteCall]_vars

\* One sessionSearch, from the return of its request on.
InitSearch ==
    /\ SearchInit /\ RegIdle /\ K8sIdle /\ ApiIdle /\ SessInit /\ MergeIdle /\ ExecInit
    /\ SshInit /\ RqInit /\ ComposeIdle /\ ShSearchIdle /\ ToolIdle /\ XCallIdle

SpecSearch == InitSearch /\ [][SessionSearchReturns]_vars

\* getTransport and getOidcConfig on a registry of two instances.
InitResolve ==
    /\ RegInit /\ configs["i1"] \in PlainConfigs
    /\ K8sIdle /\ ApiIdle /\ SessInit /\ MergeIdle /\ ExecInit /\ SshInit /\ RqInit
    /\ ComposeIdle /\ SearchIdle /\ ShSearchIdle /\ ToolIdle /\ XCallIdle

SpecResolve == InitResolve /\ [][ResolveNext]_vars

InitShSearch ==
    ShSearchInit /\ RegIdle /\ K8sIdle /\ ApiIdle /\ SessInit /\ MergeIdle /\ ExecInit /\ SshInit
    /\ RqInit /\ ComposeIdle /\ SearchIdle /\ ToolIdle /\ XCallIdle

SpecShSearch == InitShSearch /\ [][ShSearchNext]_vars

InitTool ==
    ToolInit /\ RegIdle /\ K8sIdle /\ ApiIdle /\ SessInit /\ MergeIdle /\ ExecInit /\ SshInit
    /\ RqInit /\ ComposeIdle /\ SearchIdle /\ ShSearchIdle /\ XCallIdle

SpecTool == InitTool /\ [][ToolNext]_vars

\* getTransport on a registry whose first instance has any mode, then the first
\* operation of a Kubernetes transport it returned. The registry is called
\* before the operation starts.
InitUse ==
    /\ RegInit /\ configs["i1"].manager = NoManager
    /\ K8sIdle /\ ApiIdle /\ SessInit /\ MergeIdle /\ ExecInit /\ SshInit /\ RqInit
    /\ ComposeIdle /\ SearchIdle /\ ShSearchIdle /\ ToolIdle /\ XCallIdle

UseNext ==
    \/ kops[1].pc = "idle" /\ RegNext
    \/ lastCall.res.mode = "k8s" /\ K8sSteps({1})

SpecUse == InitUse /\ [][UseNext]_vars

\* Operations that run commands on one Kubernetes transport, called at any
\* time: one command, or one command per id of a full id list.
InitRetry ==
    /\ K8sInit /\ RegIdle /\ ApiIdle /\ SessInit /\ MergeIdle /\ ExecInit /\ SshInit /\ RqInit
    /\ ComposeIdle /\ SearchIdle /\ ShSearchIdle /\ ToolIdle /\ XCallIdle

RetryNext ==
    \/ \E o \in Ops : K8sCall(o, "exec", 0)
    \/ \E o \in Ops : K8sCall(o, "deleteIds", MaxIds)
    \/ \E o \in Ops, code \in ExitCodes, out \in ListOutputs : K8sListClose(o, code, out)
    \/ \E o \in Ops : K8sListError(o)
    \/ \E o \in Ops, code \in ExitCodes : K8sExecClose(o, code)
    \/ \E o \in Ops : K8sExecError(o)

SpecRetry == InitRetry /\ [][RetryNext]_vars

\* Exec calls with the event loop at work: an event that awaits dispatch is
\* dispatched in the end. Nothing makes a running child exit.
InitXCall ==
    /\ XCallInit /\ RegIdle /\ K8sIdle /\ ApiIdle /\ SessInit /\ MergeIdle /\ ExecInit /\ SshInit
    /\ RqInit /\ ComposeIdle /\ SearchIdle /\ ShSearchIdle /\ ToolIdle

SpecXCall == InitXCall /\ [][XCallNext]_vars /\ WF_vars(XCallDispatch)

(***************************************************************************)
(* Properties                                                              *)
(***************************************************************************)

RollbackRead == apiOp.kind = "configRollback" /\ apiOp.cur # JUndef

IsPrefix(p, q) == Len(p) <= Len(q) /\ SubSeq(q, 1, Len(p)) = p

\* C1: API configRollback: whenever the version read from the remote is 1 or
\* lower, the operation fails with the rollback-boundary error and has issued
\* nothing but the read: no PUT, no second GET.
C1_RollbackBoundary ==
    (RollbackRead /\ NumOf(apiOp.cur) <= 1) =>
        /\ apiOp.pc = "failed"
        /\ apiOp.err = ErrRollback
        /\ reqlog = <<GetLatest>>
        /\ \A i \in 1..Len(reqlog) : reqlog[i].method # "PUT"

C1_Witness ==
    /\ RollbackRead
    /\ NumOf(apiOp.cur) = 1
    /\ apiOp.pc = "failed"
    /\ Len(remote) = 1

\* C2: API configRollback: whenever the version read is N > 1, the requests
\* issued are, in this order, the read of the latest config, the fetch of
\* version N-1 and one PUT to /api/v1/config whose body is the snapshot the
\* endpoint holds as version N-1; the operation succeeds once the PUT is
\* answered, and stops short of it only when one of the requests fails.
C2_RollbackWritesPrevious ==
    (RollbackRead /\ NumOf(apiOp.cur) > 1) =>
        LET n == NumOf(apiOp.cur)
            stored == CHOOSE c \in { remote[i] : i \in 1..Len(remote) } : NumOf(c) = n - 1
            full == <<[method |-> "GET", path |-> <<"config", "latest">>, body |-> JUndef],
                      [method |-> "GET", path |-> <<"config", n - 1>>, body |-> JUndef],
                      [method |-> "PUT", path |-> <<"config">>, body |-> stored]>>
        IN  /\ IsPrefix(reqlog, full)
            /\ Len(reqlog) >= 2
            /\ apiOp.pc = "done" => reqlog = full
            /\ apiOp.pc = "put" => reqlog = full
            /\ apiOp.pc = "get2" => Len(reqlog) = 2
            /\ apiOp.pc = "failed" => apiOp.err \in {ErrHttp, ErrNet}
            /\ apiOp.pc \in {"get2", "put", "done", "failed"}

C2_Witness ==
    /\ RollbackRead
    /\ NumOf(apiOp.cur) = 2
    /\ apiOp.pc = "done"
    /\ Len(reqlog) = 3
    /\ Get(Latest, "domain") = Str("a")

\* The config operations that read the remote config and then write it.
ReadThenWrite == {"configSet", "configAddKey", "configDelKey", "configMerge", "configRollback"}

\* The config the operation's write was computed from.
WriteSource == IF apiOp.kind = "configRollback" THEN apiOp.prev ELSE apiOp.cur

Sum(f) == LET RECURSIVE Go(_)
               Go(S) == IF S = {} THEN 0
                        ELSE LET x == CHOOSE y \in S : TRUE IN f[x] + Go(S \ {x})
           IN  Go(DOMAIN f)

PodListQueries == Sum([o \in Ops |-> kops[o].lists])
ExecInvocations == Sum([o \in Ops |-> kops[o].execs])

\* The instance's first two operations are single-exec operations called one
\* after the other (the second once the first had ended), the first found its
\* pod, and no further operation was called.
TwoConsecutive ==
    /\ kops[1].kind = "exec" /\ kops[1].execs = 1 /\ Ended(kops[1])
    /\ kops[2].kind = "exec" /\ kops[2].after
    /\ \A o \in Ops : o > 2 => kops[o].pc = "idle"

\* C4: two consecutive operations on one Kubernetes transport instance (each
\* an operation that runs one command, the first finding its pod) trigger
\* exactly one pod-list query and exactly two exec invocations: the second
\* operation issues no pod-list query.
C4_PodResolvedOnce ==
    TwoConsecutive =>
        /\ kops[2].lists = 0
        /\ kops[2].execs = 1
        /\ PodListQueries = 1
        /\ ExecInvocations = 2
        /\ kops[2].pods = kops[1].pods

C4_Witness ==
    /\ TwoConsecutive
    /\ kops[1].pc = "done"
    /\ kops[2].pc = "done"
    /\ kops[2].pods = {<<"b">>}

\* C5: the cached pod name is write-once: it is assigned at most once in the
\* instance's lifetime, and once it holds a pod name it is never changed or
\* cleared.
C5_PodNameWriteOnce ==
    [][ /\ podAssigns' <= 1
        /\ cachedPodName # Null => cachedPodName' = cachedPodName ]_vars

Ok(call) == call.err = Undef /\ call.name \in Instances

Builds(name, slot) == { i \in 1..Len(built) : built[i].name = name /\ built[i].slot = slot }

\* C6: for every instance and role, every getTransport call returns the very
\* transport object the first successful call for that instance and role
\* returned; an instance's Registry entry is created once, on first access,
\* and is never replaced or removed (its portal object is the one built then,
\* and no slot is ever built twice).
C6_TransportCached ==
    /\ Ok(lastCall) => lastCall.res = firstOk[<<lastCall.name, lastCall.role>>]
    /\ \A n \in Instances :
          /\ Cardinality(Builds(n, "portal")) <= 1
          /\ Cardinality(Builds(n, "manager")) <= 1
          /\ transports[n].present <=> Builds(n, "portal") # {}
          /\ \A i \in Builds(n, "portal") : transports[n].portal.id = built[i].id
          /\ \A r \in Roles : firstOk[<<n, r>>] # NoT => transports[n].present

\* Both instances hold both their transports, and the last call was answered
\* with the first object ever built.
C6_Witness ==
    /\ Ok(lastCall)
    /\ lastCall.res.id = 1
    /\ nextId = 5

\* The instance's own configuration lacks the params block of its mode.
LacksBlock(config) ==
    \/ config.mode = "ssh" /\ config.ssh = Absent
    \/ config.mode = "k8s" /\ config.k8s = Absent
    \/ config.mode = "api" /\ config.api = Absent

Called == lastCall.name \in Instances

\* C7, as claimed: for every mode (shell, kubernetes, api), getTransport for an
\* instance whose configuration lacks the params block matching its mode fails
\* with a configuration error and returns no transport.
C7_MissingBlockFails ==
    (Called /\ LacksBlock(configs[lastCall.name])) =>
        lastCall.err = ErrConfig /\ lastCall.res = NoT

\* C7, amended: for the kubernetes and api modes, getTransport for an instance
\* whose configuration lacks the params block of its mode fails with a
\* configuration error, returns no transport and creates no entry; for the
\* shell mode a missing block is no error: it is read as empty params, and a
\* portal-role request returns a shell transport built from them.
C7_MissingBlockFailsButShell ==
    Called =>
        LET config == configs[lastCall.name] IN
        /\ (config.mode \in {"k8s", "api"} /\ LacksBlock(config)) =>
              /\ lastCall.err = ErrConfig
              /\ lastCall.res = NoT
              /\ ~transports[lastCall.name].present
        /\ (config.mode = "ssh" /\ LacksBlock(config) /\ lastCall.role = "portal") =>
              /\ lastCall.err = Undef
              /\ lastCall.res.mode = "ssh"
              /\ lastCall.res.params = <<>>

C7_Witness ==
    /\ Called
    /\ configs[lastCall.name].mode = "k8s"
    /\ LacksBlock(configs[lastCall.name])
    /\ lastCall.err = ErrConfig

\* C8: if an instance declares no manager override, getTransport(instance,
\* manager) returns the same object as getTransport(instance, portal), on
\* every call.
C8_ManagerFallsBackToPortal ==
    \A n \in Instances :
        ~configs[n].manager.declared =>
            /\ (firstOk[<<n, "manager">>] # NoT /\ firstOk[<<n, "portal">>] # NoT) =>
                  firstOk[<<n, "manager">>] = firstOk[<<n, "portal">>]
            /\ (Ok(lastCall) /\ lastCall.name = n) => lastCall.res = transports[n].portal
            /\ transports[n].manager = NoT

C8_Witness ==
    /\ ~configs["i1"].manager.declared
    /\ Ok(lastCall) /\ lastCall.name = "i1" /\ lastCall.role = "manager"
    /\ firstOk[<<"i1", "portal">>] # NoT
    /\ lastCall.res = firstOk[<<"i1", "portal">>]

\* C9: the manager-role transport of an instance is never constructed by a
\* portal-role request (so never as part of building the portal transport for
\* one); it is constructed only by the first manager-role request for that
\* instance.
C9_ManagerBuiltLazily ==
    /\ \A i \in 1..Len(built) :
          built[i].slot = "manager" => built[i].by = "manager" /\ ~built[i].later
    /\ \A n \in Instances :
          (transports[n].managerResolved \/ transports[n].manager # NoT) => mgrReqs[n]

\* The portal was built by a portal-role request, and the manager later, by a
\* manager-role one.
C9_Witness ==
    /\ Len(built) >= 2
    /\ built[1].name = "i1" /\ built[1].slot = "portal" /\ built[1].by = "portal"
    /\ \E i \in 2..Len(built) :
          built[i].name = "i1" /\ built[i].slot = "manager" /\ built[i].by = "manager"

\* The backend the precedence rule gives an options record.
ByPrecedence(options) ==
    CASE options.persistent -> "persistent"
      [] ~options.persistent /\ options.refreshTokens -> "oidc"
      [] ~options.persistent /\ ~options.refreshTokens /\ options.backend # Undef -> options.backend
      [] OTHER -> "global"

\* C10: for every API session operation (get, search, delete, setKey, delKey,
\* backup) and every options record, each request names the one backend the
\* precedence gives: "persistent" if the persistent flag is set, else "oidc"
\* if refreshTokens is set, else the explicit backend if given, else "global".
C10_BackendPrecedence ==
    \A i \in 1..Len(sessLog) : sessLog[i].backend = ByPrecedence(sessOp.options)

\* The where clauses the caller of the operation supplied.
CallerClauses == sessOp.options.where.clauses

\* Every clause of `clauses` is among the clauses of the request's where.
Carries(req, clauses) ==
    /\ req.where.given
    /\ \A k \in DOMAIN clauses :
          k \in DOMAIN req.where.clauses /\ req.where.clauses[k] = clauses[k]

\* C11: a session search or backup with the refreshTokens flag goes to the oidc
\* backend with a where filter that holds the clause _type=refresh_token and
\* every where clause the caller supplied.
C11_RefreshTypeInjected ==
    (sessOp.kind \in {"sessionSearch", "sessionBackup"} /\ sessOp.options.refreshTokens) =>
        /\ sessLog[1].backend = "oidc"
        /\ Carries(sessLog[1], [_type |-> "refresh_token"])
        /\ Carries(sessLog[1], CallerClauses)

\* The ids of the DELETE requests sent so far, in order.
DeletedIds == [i \in 1..(Len(sessLog) - 1) |-> sessLog[i + 1].id]

\* C12: sessionDelete with a where filter sends one search request in idOnly
\* mode carrying that filter and then only DELETE requests, one per id the
\* search returned and in that order: at any time the ids deleted are a prefix
\* of the ids found, and all of them once the deletion has completed.
C12_SearchThenDelete ==
    (sessOp.kind = "sessionDelete" /\ sessOp.options.where.given) =>
        /\ Len(sessLog) >= 1
        /\ sessLog[1].method = "GET" /\ sessLog[1].id = Undef
        /\ sessLog[1].select = Select(<<"_session_id">>)
        /\ Carries(sessLog[1], CallerClauses)
        /\ \A i \in 2..Len(sessLog) : sessLog[i].method = "DELETE"
        /\ IsPrefix(DeletedIds, sessOp.found)
        /\ sessOp.pc = "done" => DeletedIds = sessOp.found

\* A deepMerge call was made: mTarget, mSource and mResult are its arguments
\* and its result.
Merged == mCount > 0

\* The keys of the snippet that the merge does not skip.
MergeKeys(snip) == DOMAIN snip.v \ ProtoKeys

\* Where config and snippet are both plain objects the result has the keys of
\* both and the rule applies to each common key; where the config's value is
\* an array or a scalar the result holds the snippet's value and nothing of the
\* value it replaces: the snippet's value itself or, for a snippet object, an
\* object with no key the snippet's object lacks.
RECURSIVE ReplacedWholesale(_, _, _)
ReplacedWholesale(cur, snip, res) ==
    /\ res.t = "obj"
    /\ DOMAIN res.v = DOMAIN cur.v \cup MergeKeys(snip)
    /\ \A k \in MergeKeys(snip) \cap DOMAIN cur.v :
          IF cur.v[k].t = "obj"
          THEN snip.v[k].t = "obj" => ReplacedWholesale(cur.v[k], snip.v[k], res.v[k])
          ELSE IF snip.v[k].t = "obj"
               THEN res.v[k].t = "obj" /\ DOMAIN res.v[k].v \subseteq DOMAIN snip.v[k].v
               ELSE res.v[k] = snip.v[k]

\* C15: deepMerge merges plain nested objects key by key and replaces an array
\* or a scalar of the current config, at a key the snippet supplies, by the
\* snippet's value: no element or part of the replaced value is in the result.
C15_ArraysScalarsReplaced == Merged => ReplacedWholesale(mTarget, mSource, mResult)

\* Some object inside x, at any depth and inside arrays too, has a key named
\* __proto__, constructor or prototype.
RECURSIVE HasProtoKey(_)
HasProtoKey(x) ==
    CASE x.t = "obj" -> \E k \in DOMAIN x.v : k \in ProtoKeys \/ HasProtoKey(x.v[k])
      [] x.t = "arr" -> \E i \in 1..Len(x.v) : HasProtoKey(x.v[i])
      [] OTHER -> FALSE

\* Every other key of the snippet is in the result, at every depth.
RECURSIVE OtherKeysMerged(_, _)
OtherKeysMerged(snip, res) ==
    \A k \in MergeKeys(snip) :
        /\ k \in DOMAIN res.v
        /\ snip.v[k].t = "obj" =>
              res.v[k].t = "obj" /\ OtherKeysMerged(snip.v[k], res.v[k])

\* C16: deepMerge copies no snippet key named __proto__, constructor or
\* prototype into the result, at any nesting depth: merging into a config
\* without such keys gives a result without such keys, and every other key of
\* the snippet is merged.
C16_ProtoKeysSkipped ==
    Merged =>
        /\ ~HasProtoKey(mTarget) => ~HasProtoKey(mResult)
        /\ OtherKeysMerged(mSource, mResult)

\* C17: merging the empty snippet is the identity: deepMerge(A, {}) = A.
C17_EmptySnippetIdentity == (Merged /\ mSource = EmptyObj) => mResult = mTarget

\* The empty snippet was merged into a config with a nested object.
C17_Witness ==
    /\ Merged
    /\ mSource = EmptyObj
    /\ "a" \in DOMAIN mTarget.v
    /\ mTarget.v["a"].t = "obj"
    /\ mResult = mTarget

\* Every key of the config that the snippet does not supply keeps its value;
\* under a key both hold as plain objects the same goes for the keys below.
\* (A key the snippet supplies as a leaf is replaced with all that was below.)
RECURSIVE Untouched(_, _, _)
Untouched(cur, snip, res) ==
    \A k \in DOMAIN cur.v :
        IF k \notin DOMAIN snip.v
        THEN k \in DOMAIN res.v /\ res.v[k] = cur.v[k]
        ELSE (k \notin ProtoKeys /\ cur.v[k].t = "obj" /\ snip.v[k].t = "obj") =>
                 /\ k \in DOMAIN res.v
                 /\ res.v[k].t = "obj"
                 /\ Untouched(cur.v[k], snip.v[k], res.v[k])

\* C18: deepMerge changes only the leaves the snippet supplies: every key of
\* the current config, at any depth, that the snippet does not mention keeps
\* its value in the merged result.
C18_UntouchedKept == Merged => Untouched(mTarget, mSource, mResult)

\* A leaf three levels down was overwritten; its sibling and the other branch
\* are as before.
C18_Witness ==
    /\ Merged
    /\ mTarget = O2("a", O1("x", O2("p", Num(1), "q", Num(2))), "b", Num(1))
    /\ mSource = O1("a", O1("x", O1("p", Num(9))))
    /\ mResult = O2("a", O1("x", O2("p", Num(9), "q", Num(2))), "b", Num(1))

\* The texts of the two execution failures of a primitive.
ExitText(kind) == IF kind = "ssh" THEN SshErrExit ELSE ErrExit
SpawnText(kind) == IF kind = "ssh" THEN SshErrSpawn ELSE ErrSpawn

\* C19: an exec of the shell or Kubernetes transport whose child exits with a
\* non-zero code fails with the exit failure that carries that code; one whose
\* child cannot be started fails with the execution failure; one that returns
\* returns all the child wrote to stdout, and its child exited with code 0.
C19_ExecOutcome ==
    \A e \in xHist :
        /\ (e.ev = "close" /\ e.code # 0) =>
              /\ ~e.outcome.ok
              /\ e.outcome.msg = ExitText(e.kind)
              /\ e.outcome.code = e.code
        /\ e.ev = "error" =>
              /\ ~e.outcome.ok
              /\ e.outcome.msg = SpawnText(e.kind)
        /\ e.outcome.ok <=> (e.ev = "close" /\ e.code = 0)
        /\ e.outcome.ok => e.outcome.out = e.wrote

\* A shell exec failed on exit code 2 after its child wrote to stdout, and a
\* kubectl returned what its child wrote.
C19_Witness ==
    /\ \E e \in xHist :
          /\ e.kind = "ssh" /\ e.ev = "close" /\ e.code = 2 /\ e.wrote = <<"o">>
          /\ e.outcome = Rejected(SshErrExit, 2)
    /\ \E e \in xHist :
          /\ e.kind = "k8s" /\ e.ev = "close" /\ e.code = 0
          /\ e.outcome = Resolved(<<"o">>)

\* Two execs of the same primitive whose children wrote the same to stdout and
\* ended the same way.
SameButStderr(e, f) ==
    /\ e.kind = f.kind
    /\ e.wrote = f.wrote
    /\ e.ev = f.ev
    /\ e.code = f.code

\* C20: what the child writes to stderr never reaches the caller: two execs
\* with the same stdout and the same exit status return the same value or
\* raise the same error, whatever the children wrote to stderr.
C20_StderrHidden ==
    \A e, f \in xHist : SameButStderr(e, f) => e.outcome = f.outcome

\* Two execs that differ in the stderr of their children only, both returning
\* and both failing.
C20_Witness ==
    \E e, f \in xHist :
        /\ SameButStderr(e, f)
        /\ e.wroteErr = <<>> /\ f.wroteErr = <<"e">>
        /\ e.ev = "close" /\ e.code = 0 /\ e.wrote = <<"o">>
        /\ e.outcome = f.outcome

\* C13: a 2FA or consent operation on the shell or the Kubernetes transport
\* fails with the error that tells the caller to use API mode, and no process
\* was started for it: no command, and on Kubernetes no pod-list query.
C13_UnsupportedNoProcess ==
    /\ sshOp.kind \in TwoFactorAndConsent =>
          /\ sshOp.pc = "failed"
          /\ sshOp.err = ErrUseApi
          /\ sshOp.execs = 0
    /\ \A o \in Ops :
          kops[o].kind \in TwoFactorAndConsent =>
              /\ kops[o].pc = "failed"
              /\ kops[o].err = ErrUseApi
              /\ kops[o].execs = 0 /\ kops[o].lists = 0

\* A consent operation failed on the shell transport and a 2FA operation on a
\* Kubernetes transport that has resolved no pod.
C13_Witness ==
    /\ sshOp.kind = "consentsDelete" /\ sshOp.pc = "failed"
    /\ kops[1].kind = "secondFactorsGet" /\ kops[1].pc = "failed"
    /\ ~K8sConfigThrows(k8sConfig)
    /\ cachedPodName = Null

Parts(message) == {message[i] : i \in 1..Len(message)}

\* C21: every non-2xx response makes the request fail with an error whose
\* message contains the HTTP status and the response body.
C21_ErrorHasStatusAndBody ==
    (rq.ev = "response" /\ ~(rq.resp.status \in 200..299)) =>
        /\ ~rq.outcome.ok
        /\ StatusStr(rq.resp.status) \in Parts(rq.outcome.msg)
        /\ rq.resp.text.kind # "empty" => rq.resp.text.raw \in Parts(rq.outcome.msg)

\* C22: every connection-level failure of a request is raised as an error whose
\* message is the prefix "API request failed: " followed by the cause.
C22_NetworkErrorPrefixed ==
    rq.ev = "reject" =>
        /\ ~rq.outcome.ok
        /\ rq.outcome.msg = <<"API request failed: ", rq.cause>>

\* A PUT with a body failed on a refused connection.
C22_Witness ==
    /\ rq.ev = "reject"
    /\ rq.method = "PUT" /\ rq.sent
    /\ rq.cause = "fetch failed"
    /\ rq.outcome = Thrown(<<"API request failed: ", "fetch failed">>)

\* The failures an operation can meet: a child process that exits with a
\* non-zero code or cannot be started, and an HTTP request that is answered
\* with a non-2xx status or not at all.
FailedCodes == ExitCodes \ {0}
FailedStatuses == HttpStatuses \ (200..299)

ShellFails == (\E code \in FailedCodes : SshExecClose(code)) \/ SshExecError

KubectlFails(o) ==
    \/ \E code \in FailedCodes, out \in ListOutputs : K8sListClose(o, code, out)
    \/ K8sListError(o)
    \/ \E code \in FailedCodes : K8sExecClose(o, code)
    \/ K8sExecError(o)

FetchFails ==
    \/ \E status \in FailedStatuses, ctype \in ContentTypes, text \in ResponseTexts :
          FetchResolves(status, ctype, text)
    \/ \E cause \in FetchCauses : FetchRejects(cause)

\* C23: no failure is swallowed: in every step in which a child process or an
\* HTTP request of an operation fails, the operation fails to its caller with
\* an error that has a message, and an operation that has failed never turns
\* into one that succeeded.
C23_NoFailureSwallowed ==
    [][ /\ ShellFails => sshOp'.pc = "failed" /\ sshOp'.err # Undef
        /\ \A o \in Ops : KubectlFails(o) => kops'[o].pc = "failed" /\ kops'[o].err # Undef
        /\ (\E err \in {ErrHttp, ErrNet} : SessRequestFails(err)) =>
               sessOp'.pc = "failed" /\ sessOp'.err # Undef
        /\ (\E err \in {ErrHttp, ErrNet} : ApiRequestFails(err)) =>
               apiOp'.pc = "failed" /\ apiOp'.err # Undef
        /\ FetchFails => ~rq'.outcome.ok /\ rq'.outcome.msg # <<>>
        /\ sshOp.pc = "failed" => sshOp'.pc = "failed"
        /\ \A o \in Ops : kops[o].pc = "failed" => kops'[o].pc = "failed"
        /\ sessOp.pc = "failed" => sessOp'.pc = "failed"
        /\ (apiOp.pc = "failed" /\ apiOps' = apiOps) => apiOp'.pc = "failed"
        /\ (rq.pc = "settled" /\ ~rq.outcome.ok) => ~rq'.outcome.ok ]_vars

\* A shell sessionDelete of two ids whose second delete process failed: the
\* first delete succeeded and the operation failed all the same.
C23_Witness ==
    /\ sshOp.kind = "deleteIds" /\ sshOp.ids = 2 /\ sshOp.execs = 2
    /\ sshOp.pc = "failed" /\ sshOp.err = SshErrExit

\* The layers of a composed command, outermost first: sudo -u <user>, the
\* wrapper's tokens, the binary and its arguments.
SudoLayer(config) == IF config.sudo # NoString THEN <<SudoWord, DashU, config.sudo>> ELSE <<>>
WrapperLayer(config) ==
    IF config.remoteCommand # NoString THEN Split(config.remoteCommand) ELSE <<>>
Nested(config, args) == SudoLayer(config) \o WrapperLayer(config) \o args
SshTarget(config) ==
    (IF config.port # 0 THEN <<DashP, PortString(config.port)>> ELSE <<>>)
    \o <<IF config.user # NoString THEN config.user \o At \o config.host ELSE config.host>>

\* C24: the composed invocation nests as ssh -> sudo -> wrapper -> binary.
\* Without a host the spawned command and its arguments are sudo -u <user>,
\* the wrapper's tokens, then the binary and its arguments; with a host the
\* command is ssh [-p port] [user@]host followed by exactly one argument, which
\* the remote shell reads as that same sequence of words.
C24_NestedComposition ==
    spawned.called =>
        LET config == spawned.config
            proc == spawned.proc
        IN  IF config.host = NoString
            THEN <<proc.cmd>> \o proc.cmdArgs = Nested(config, spawned.args)
            ELSE /\ proc.cmd = SshWord
                 /\ Len(proc.cmdArgs) = Len(SshTarget(config)) + 1
                 /\ SubSeq(proc.cmdArgs, 1, Len(SshTarget(config))) = SshTarget(config)
                 /\ ShellWords(proc.cmdArgs[Len(proc.cmdArgs)]) = Nested(config, spawned.args)

\* A remote transport with port, user, a sudo user whose name holds a quote and
\* a three-word wrapper ran a command with an argument holding a quote and an
\* empty argument.
C24_Witness ==
    /\ spawned.called
    /\ spawned.config = [host |-> <<"h">>, port |-> 22, user |-> <<"r">>,
                         sudo |-> <<"o", Quote, "b">>,
                         remoteCommand |-> <<"d", Space, "e", Space, "c">>]
    /\ spawned.args = <<BinaryPath, <<"i", "t", Quote, "s">>, NoString>>
    /\ Len(spawned.proc.cmdArgs) = 4

\* C25: shell quoting round-trips: a POSIX shell reads shellQuote(S) as exactly
\* one word, and that word is S.
C25_QuoteRoundTrip ==
    quoted.called => ShellWords(quoted.out) = <<quoted.arg>>

\* Quoted: the empty string, a string of a quote between spaces, and a string
\* of a backslash and a quote.
C25_Witness ==
    /\ quoted.called
    /\ quoted.arg \in {NoString, <<Space, Quote, Space>>, <<Backslash, Quote>>}
    /\ ShellWords(quoted.out) = <<quoted.arg>>

\* A log is given to configSet: the code tests `if (log)`, so an empty log is
\* no log.
LogGiven(log) == log # Undef /\ log # ""

\* The fetched config with each key of pairs set to its value and cfgLog set to
\* the log when one is given; every other key as fetched.
SetExpected(cur, pairs, log) ==
    Obj([k \in DOMAIN cur.v \cup DOMAIN pairs.v \cup (IF LogGiven(log) THEN {"cfgLog"} ELSE {}) |->
            IF LogGiven(log) /\ k = "cfgLog" THEN Str(log)
            ELSE IF k \in DOMAIN pairs.v THEN pairs.v[k]
            ELSE cur.v[k]])

\* C26: API configSet(pairs, log) issues one GET of the latest config, then one
\* PUT whose body is the fetched config with each key of pairs set, cfgLog set
\* to the log when one is given, and every other key unchanged; it issues no
\* other request, and no PUT when the GET failed.
C26_ConfigSetRequests ==
    apiOp.kind = "configSet" =>
        /\ apiOp.pc # "idle" /\ Len(reqlog) >= 1 /\ reqlog[1] = GetLatest
        /\ apiOp.cur = JUndef => (apiOp.pc \in {"get1", "failed"} /\ Len(reqlog) = 1)
        /\ apiOp.cur # JUndef =>
              /\ apiOp.pc \in {"put", "done", "failed"}
              /\ reqlog = <<GetLatest,
                            PutConfig(SetExpected(apiOp.cur, apiOp.arg.pairs, apiOp.arg.log))>>
        /\ apiOp.pc = "done" => Len(reqlog) = 2

\* A configSet of two keys with a log has ended: its PUT carried the new
\* domain, the log, and the fetched mail and cfgNum.
C26_Witness ==
    /\ apiOp.kind = "configSet" /\ apiOp.pc = "done"
    /\ apiOp.arg.pairs = Obj([domain |-> Str("c"), opts |-> Str("c")])
    /\ apiOp.arg.log = "L"
    /\ Len(reqlog) = 2
    /\ reqlog[2].method = "PUT"
    /\ Get(reqlog[2].body, "domain") = Str("c")
    /\ Get(reqlog[2].body, "cfgLog") = Str("L")
    /\ Get(reqlog[2].body, "mail") = Get(apiOp.cur, "mail")
    /\ Get(reqlog[2].body, "cfgNum") = Get(apiOp.cur, "cfgNum")

\* The element of a session: its id, then its attributes.
ElementOf(id, attrs) ==
    Obj([k \in {"id"} \cup DOMAIN attrs.v |->
            IF k \in DOMAIN attrs.v THEN attrs.v[k] ELSE Str(id)])

\* C27: for a response that is an object keyed by session id, sessionSearch
\* returns an array with exactly one element {id, ...attrs} per key, and in
\* idOnly mode an array of the keys as bare strings, one per key.
C27_SearchNormalized ==
    (searched.called /\ searched.result.t = "obj") =>
        LET result == searched.result
            out == searched.out
        IN  /\ out.ok /\ out.val.t = "arr"
            /\ Len(out.val.v) = Cardinality(DOMAIN result.v)
            /\ \E order \in Orders(DOMAIN result.v) :
                  \A i \in 1..Len(order) :
                      out.val.v[i] = IF searched.idOnly THEN Str(order[i])
                                     ELSE ElementOf(order[i], result.v[order[i]])
            /\ searched.idOnly => \A i \in 1..Len(out.val.v) : out.val.v[i].t = "str"

\* A response of two sessions with attributes was turned into two elements.
C27_Witness ==
    /\ searched.called /\ ~searched.idOnly
    /\ searched.result = Obj([s1 |-> Obj([uid |-> Str("u")]),
                              s2 |-> Obj([uid |-> Str("u"), _session_id |-> Str("s1")])])
    /\ searched.out.val =
          Arr(<<Obj([id |-> Str("s1"), uid |-> Str("u")]),
                Obj([id |-> Str("s2"), uid |-> Str("u"), _session_id |-> Str("s1")])>>)

\* The pod-list outputs that are empty: nothing, or blanks only.
EmptyListOutputs == { out \in ListOutputs : \A i \in 1..Len(out) : out[i] = Blank }

\* C28: when the pod-list query of an operation ends with exit code 0 and an
\* empty output, the operation fails with the no-pod-found error: no pod name
\* is cached and no kubectl exec is spawned for it.
C28_EmptyPodListFails ==
    [][ \A o \in Ops :
          (\E out \in EmptyListOutputs : K8sListClose(o, 0, out)) =>
              /\ kops'[o].pc = "failed"
              /\ kops'[o].err = ErrNoPod
              /\ kops'[o].execs = kops[o].execs
              /\ cachedPodName' = cachedPodName ]_vars

\* An operation listed the pods once, found none and failed without an exec.
C28_Witness ==
    /\ kops[1].pc = "failed" /\ kops[1].err = ErrNoPod
    /\ kops[1].lists = 1 /\ kops[1].execs = 0
    /\ cachedPodName = Null

\* C29: getTransport and getOidcConfig called with a name that is not a
\* configured instance fail with the unknown-instance error, whose text lists
\* all configured instance names, and no Registry entry exists for such a name.
C29_UnknownNameFails ==
    /\ (lastCall.op # Undef /\ lastCall.name \notin Instances) =>
          /\ lastCall.err = ErrUnknown
          /\ lastCall.listed = Instances
          /\ lastCall.res = NoT
    /\ \A n \in Names \ Instances : ~transports[n].present

\* The same options with the hash flag unset, and set.
Unhashed(options) == [options EXCEPT !.hash = FALSE]
Hashed(options) == [options EXCEPT !.hash = TRUE]

\* The requests a session operation has issued are those of the operation
\* called with the options o: its first request, and the DELETEs of a deletion.
IssuedFor(o) ==
    /\ sessLog # <<>> =>
          sessLog[1] =
              CASE sessOp.kind = "sessionGet" -> ItemRequest("GET", o, "s1")
                [] sessOp.kind \in {"sessionSetKey", "sessionDelKey"} -> ItemRequest("PUT", o, "s1")
                [] sessOp.kind = "sessionSearch" -> SearchRequest(o)
                [] sessOp.kind = "sessionBackup" ->
                       BackupRequest(o.backend, o.refreshTokens, o.persistent)
                [] OTHER -> IF o.where.given THEN SearchRequest(DeleteSearchFilters(o))
                            ELSE ItemRequest("DELETE", o, sessOp.ids[1])
    /\ \A i \in 1..Len(sessLog) :
          sessLog[i].method = "DELETE" => sessLog[i] = ItemRequest("DELETE", o, sessLog[i].id)

\* C30: the API transport ignores the hash option: the requests a session
\* operation issues are those of the same call with hash unset and those of the
\* same call with hash set, and the operation fails only when a request fails.
C30_HashIgnored ==
    sessOp.kind # Undef =>
        /\ IssuedFor(Unhashed(sessOp.options))
        /\ IssuedFor(Hashed(sessOp.options))
        /\ sessOp.err \in {Undef, ErrHttp, ErrNet}
        /\ sessOp.pc = "failed" <=> sessOp.err # Undef

\* A sessionGet called with hash set has ended: its one request is the GET of
\* the session on the resolved backend, with no query.
C30_Witness ==
    /\ sessOp.kind = "sessionGet" /\ sessOp.options.hash /\ sessOp.pc = "done"
    /\ sessLog = <<SReq("GET", ResolveBackend(sessOp.options), "s1", NoWhere, NoSelect, FALSE)>>

\* The arguments that carry a given flag, and the argument after a flag.
Occurrences(args, flag) == {i \in DOMAIN args : args[i] = <<flag>>}
Present(args, flag) == Occurrences(args, flag) # {}
After(args, flag) == args[(CHOOSE i \in Occurrences(args, flag) : TRUE) + 1]
Count(b) == IF b THEN 1 ELSE 0
WhereSet(f) == IF f.where.given THEN f.where.entries ELSE <<>>
SelectSet(f) == f.select.given /\ f.select.fields # <<>>
BackendSet(f) == f.backend.given /\ f.backend.name # ""
CommaJoined(fields) ==
    [i \in 1..(2 * Len(fields) - 1) |-> IF i % 2 = 1 THEN fields[(i + 1) \div 2] ELSE ","]

\* C31: a shell sessionSearch invokes the sessions binary once, with "search"
\* first, then one "--where" "field=value" pair per entry of where in order,
\* "--select" followed by the comma-joined fields exactly when select has
\* fields, "--backend" followed by the name exactly when a backend is named,
\* and each of "--count", "--refresh-tokens", "--persistent", "--hash",
\* "--id-only" exactly when its flag is true, and nothing else; when the
\* binary exits with 0 and stdout holds a JSON array, that array is returned.
C31_SearchArgv ==
    shSearch.pc # "idle" =>
        LET f == shSearch.filters
            a == shSearch.args
            w == WhereSet(f)
        IN  /\ shSearch.binary = SessionsBinary /\ shSearch.execs = 1
            /\ a[1] = <<"search">>
            /\ \A i \in DOMAIN w :
                 /\ a[2 * i] = <<"--where">>
                 /\ a[2 * i + 1] = <<w[i][1], "=", w[i][2]>>
            /\ Cardinality(Occurrences(a, "--where")) = Len(w)
            /\ Present(a, "--select") <=> SelectSet(f)
            /\ SelectSet(f) => After(a, "--select") = CommaJoined(f.select.fields)
            /\ Present(a, "--backend") <=> BackendSet(f)
            /\ BackendSet(f) => After(a, "--backend") = <<f.backend.name>>
            /\ Present(a, "--count") <=> f.count
            /\ Present(a, "--refresh-tokens") <=> f.refreshTokens
            /\ Present(a, "--persistent") <=> f.persistent
            /\ Present(a, "--hash") <=> f.hash
            /\ Present(a, "--id-only") <=> f.idOnly
            /\ Len(a) = 1 + 2 * Len(w) + 2 * Count(SelectSet(f)) + 2 * Count(BackendSet(f))
                        + Count(f.count) + Count(f.refreshTokens) + Count(f.persistent)
                        + Count(f.hash) + Count(f.idOnly)
            /\ (shSearch.pc = "done" /\ shSearch.out.ok)
                 => shSearch.out.val = shSearch.stdout.json
            /\ (shSearch.pc = "done" /\ shSearch.stdout.kind = "json" /\ shSearch.stdout.json.t = "arr")
                 => (shSearch.out.ok \/ shSearch.out.msg[1] = SshErrExit)

C31_Witness ==
    /\ shSearch.pc = "done"
    /\ shSearch.out = Returned(Arr(<<Obj("id" :> Str("session1"))>>))
    /\ shSearch.args = << <<"search">>, <<"--where">>, <<"uid", "=", "john">>,
                          <<"--where">>, <<"ipAddr", "=", "192.168.1.1">>,
                          <<"--select">>, <<"uid", ",", "ipAddr">>,
                          <<"--backend">>, <<"persistent">>, <<"--count">> >>

\* The readable text of a thrown value: the message of an Error, a string
\* itself, and the string form of anything else.
Readable(e) ==
    IF e.t \in {"error", "str"} THEN e.v
    ELSE IF e.t = "obj" THEN "[object Object]" ELSE "undefined"

RECURSIVE SpawnedBy(_)
SpawnedBy(S) ==
    IF S = {} THEN 0
    ELSE LET o == CHOOSE x \in S : TRUE
         IN  kops[o].lists + kops[o].execs + SpawnedBy(S \ {o})

\* C33: the constructors getTransport runs start no subprocess and issue no
\* HTTP request, whatever the mode; a Kubernetes transport that was built and
\* returned has spawned nothing and cached no pod as long as no operation was
\* called on it, and its pod-list query is issued by its first operation.
C33_ConstructionNoIo ==
    /\ \A i \in DOMAIN ctorIo : ctorIo[i] \notin {"spawn", "fetch"}
    /\ (\A o \in Ops : kops[o].pc = "idle") => SpawnedBy(Ops) = 0 /\ cachedPodName = Null
    /\ SpawnedBy(Ops) > 0 => kops[1].lists = 1

C33_Witness ==
    /\ \E i \in DOMAIN built : built[i].slot = "manager"
    /\ lastCall.res.mode = "k8s"
    /\ ctorIo # <<>>
    /\ kops[1].pc = "listing" /\ kops[1].lists = 1

\* C34: in a sessionDelete with a where filter, every DELETE request names the
\* backend the search request before it named, whatever the persistent,
\* refreshTokens and backend options are.
C34_DeleteOnSearchedBackend ==
    (sessOp.kind = "sessionDelete" /\ sessOp.options.where.given) =>
        \A i \in 2..Len(sessLog) :
            sessLog[i].method = "DELETE" => sessLog[i].backend = sessLog[1].backend

\* C35: all the kubectl exec invocations of one transport instance name the
\* same pod, also when several operations are outstanding and several of them
\* started before a pod name was cached.
C35_OnePodForAllExecs ==
    Cardinality(UNION {kops[o].pods : o \in Ops}) <= 1

\* The exec of an operation of the Kubernetes transport fails.
KubectlExecFails(o) == (\E code \in FailedCodes : K8sExecClose(o, code)) \/ K8sExecError(o)

\* The ids an API sessionDelete has sent a DELETE request for, in order.
RequestedIds == [i \in 1..Len(sessLog) |-> sessLog[i].id]

ByIdList == sessOp.kind = "sessionDelete" /\ ~sessOp.options.where.given

\* C36: when a deletion by explicit id list fails at its k-th id, on the shell,
\* Kubernetes or API transport, the operation fails, exactly the first k ids
\* have had an invocation or request, and the failed operation does nothing
\* more: no invocation or request for a later id and none that undoes an
\* earlier deletion.
C36_FailedDeleteStops ==
    [][ /\ (sshOp.kind = "deleteIds" /\ ShellFails) =>
               /\ sshOp'.pc = "failed"
               /\ sshOp'.execs = sshOp.execs
               /\ sshOp.execs = sshOp.ids - sshOp.todo
        /\ (sshOp.kind = "deleteIds" /\ sshOp.pc = "failed") => sshOp' = sshOp
        /\ \A o \in Ops :
             /\ (kops[o].kind = "deleteIds" /\ KubectlExecFails(o)) =>
                    /\ kops'[o].pc = "failed"
                    /\ kops'[o].execs = kops[o].execs
                    /\ kops[o].execs = kops[o].ids - kops[o].todo
             /\ (kops[o].kind = "deleteIds" /\ kops[o].pc = "failed") => kops'[o] = kops[o]
        /\ (ByIdList /\ \E err \in {ErrHttp, ErrNet} : SessRequestFails(err)) =>
               /\ sessOp'.pc = "failed"
               /\ sessLog' = sessLog
               /\ \A i \in DOMAIN sessLog : sessLog[i].method = "DELETE"
               /\ IsPrefix(RequestedIds, sessOp.ids)
               /\ Len(RequestedIds) = Len(sessOp.ids) - Len(sessOp.todo)
        /\ (ByIdList /\ sessOp.pc = "failed") => sessOp' = sessOp /\ sessLog' = sessLog ]_vars

C36_Witness ==
    /\ ByIdList /\ Len(sessOp.ids) = 2
    /\ sessOp.pc = "failed" /\ Len(sessLog) = 1 /\ sessLog[1].method = "DELETE"

\* The pod-list query of an operation fails: the process cannot start, exits
\* with a failure code, or exits with 0 and an empty output.
PodResolutionFails(o) ==
    \/ K8sListError(o)
    \/ \E code \in FailedCodes, out \in ListOutputs : K8sListClose(o, code, out)
    \/ \E out \in EmptyListOutputs : K8sListClose(o, 0, out)

\* An operation that failed in its pod resolution: it listed and never exec'ed.
ResolutionFailed(op) == op.pc = "failed" /\ op.lists = 1 /\ op.execs = 0 /\ op.pods = {}

\* An operation that runs at least one command.
RunsCommand(op) == op.kind \notin UnsupportedOps /\ Invocations(op.kind, op.ids) > 0

\* In a run whose operations are called one after the other: once an operation
\* failed in its pod resolution the cache is empty until the next operation is
\* called, and that operation, if it runs a command, lists the pods again.
RetriedAfterFailure(ks, cache) ==
    (\A p \in Ops : ks[p].pc # "idle" => ks[p].after) =>
        \A o \in Ops : (o + 1 \in Ops /\ ResolutionFailed(ks[o])) =>
            IF ks[o + 1].pc = "idle" THEN cache = Null
            ELSE RunsCommand(ks[o + 1]) => ks[o + 1].lists = 1

\* C37: a pod resolution that fails, by an empty result or a failed pod-list
\* query, fails its operation without assigning the pod-name cache and without
\* a kubectl exec, then or later; and when operations are called one after the
\* other the cache is still empty when the next operation is called, which
\* issues a new pod-list query.
C37_FailedResolutionRetried ==
    [][ /\ \A o \in Ops :
             /\ PodResolutionFails(o) =>
                    /\ ResolutionFailed(kops'[o])
                    /\ cachedPodName' = cachedPodName
                    /\ podAssigns' = podAssigns
             /\ ResolutionFailed(kops[o]) => kops'[o] = kops[o]
        /\ RetriedAfterFailure(kops, cachedPodName)
        /\ RetriedAfterFailure(kops', cachedPodName') ]_vars

\* The first operation failed on a pod-list query that exited with a failure
\* code; the second, called afterwards, listed the pods again and found one.
C37_Witness ==
    /\ ResolutionFailed(kops[1]) /\ kops[1].err = ErrExit
    /\ kops[2].after /\ kops[2].lists = 1 /\ kops[2].pc = "exec"
    /\ cachedPodName = <<"a">>

\* The config the operation read holds no such subkey under the key: the key
\* is missing, or its value is not an object, or the object lacks the subkey.
SubkeyAbsent(cur, key, subkey) ==
    ~(Get(cur, key).t = "obj" /\ subkey \in DOMAIN Get(cur, key).v)

\* C38: a configDelKey whose GET was answered with a config that does not hold
\* the subkey under the key completes without error having issued that one
\* GET and no PUT.
C38_AbsentKeyNoWrite ==
    (/\ apiOp.kind = "configDelKey" /\ apiOp.pc # "get1" /\ apiOp.cur # NoApiOp.cur
     /\ SubkeyAbsent(apiOp.cur, apiOp.arg.key, apiOp.arg.subkey)) =>
        /\ apiOp.pc = "done" /\ apiOp.err = Undef
        /\ reqlog = <<GetLatest>>

\* A transport can be constructed from the configuration: its mode's block is
\* there, or its mode is the shell mode.
Constructible(cfg) ==
    /\ cfg.mode = "api" => cfg.api # Absent
    /\ cfg.mode = "k8s" => cfg.k8s # Absent

Succeeded == lastCall.err = Undef /\ lastCall.res # NoT

\* C39: the two roles of an instance are resolved independently: a portal-role
\* getTransport succeeds whenever the portal transport can be constructed, and
\* a manager-role getTransport on an instance with a manager override succeeds
\* whenever the manager transport can be constructed from the override, in
\* both cases whether or not the other role's transport can be constructed.
C39_RolesIndependent ==
    (Called /\ lastCall.op = "getTransport") =>
        LET config == configs[lastCall.name] IN
        /\ (lastCall.role = "portal" /\ Constructible(PortalConfig(config))) => Succeeded
        /\ (lastCall.role = "manager" /\ HasManager(config)
              /\ Constructible(BuildManagerConfig(config))) => Succeeded

ChildEnded == xCall.child \in {"exited", "failed"}

\* C40: an exec or kubectl call completes exactly once and only after its
\* child has exited or failed to start: its promise is settled at most once
\* and only when the child has ended, it is pending as long as the child runs
\* (nothing else, such as a timeout, settles it), and whenever the child has
\* exited or failed to start the promise is settled in the end, once.
C40_ExecCompletesOnce ==
    /\ [](xCall.promise.settles <= 1)
    /\ [](xCall.promise.state = "settled" => ChildEnded)
    /\ [](xCall.child = "running" => xCall.promise.state = "pending")
    /\ [][xCall.promise.state = "settled" => xCall'.promise = xCall.promise \/ xCall'.calls # xCall.calls]_vars
    /\ (ChildEnded ~> (xCall.promise.state = "settled" /\ xCall.promise.settles = 1))

\* The child could not be started: the promise was rejected by the "error"
\* handler and the "close" event that followed changed nothing.
C40_Witness ==
    /\ xCall.child = "failed" /\ xCall.queue = <<>>
    /\ xCall.promise.state = "settled" /\ xCall.promise.settles = 1
    /\ xCall.promise.outcome = SpawnFailure(xCall.kind)

====
